---- MODULE Spec2Model ----
(***************************************************************************)
(* A model of the ucr-ai-planner sources: the A* driver of pathfinding.py, *)
(* the formula algebra and World of expressions.py, the parameter reader   *)
(* of pddl.py and the grounder and planner of planner.py.                  *)
(***************************************************************************)
EXTENDS Integers, Sequences, FiniteSets, TLC

VARIABLES
    mode,               \* which program is running: "astar", "plan", "expr", "ground", ...
    graph,              \* static graph: node id -> sequence of outgoing edges
    hval,               \* the heuristic table of the run: node id -> number
    goal_ids,           \* the ids the goal predicate accepts
    expanded_expressions, \* planner.plan: the ground templates of the domain
    problem_goal,       \* planner.plan: problem[2], the goal as read
    useheuristic,       \* planner.plan: its third argument
    open_list,          \* pathfinding.astar: the heapq list
    closed_list,        \* pathfinding.astar: the list of popped nodes
    i,                  \* pathfinding.astar: the tie-break counter
    current_node_info,  \* pathfinding.astar: the entry popped last (Option)
    edges_left,         \* the edges the for-loop of line 95 has still to visit
    edge_path,          \* pathfinding.astar: Option of the edge sequence
    distance,           \* pathfinding.astar: Option of the path cost
    result,             \* the 4-tuple returned at line 129 (Option)
    pc,                 \* position in astar: "loop", "expand", "return", "done", "raised"
    pushed,             \* history: ids of the nodes ever pushed on open_list
    expansions,         \* history: number of times the loop of line 95 was entered
    replacements,       \* history: number of times lines 117-118 replaced an entry
    ex_world,           \* expressions: the world apply is called on
    ex_effect,          \* expressions: the effect applied
    new_world,          \* expressions: what apply(ex_world, ex_effect) returned (Option)
    relaxed_world,      \* expressions: what ex_world.apply_relaxed(ex_effect) returned (Option)
    raised,             \* expressions: the exceptions raised by the calls
    gr_types,           \* grounder: the declared type of each parameter, in order
    gr_tokens,          \* grounder: the :parameters list of the action, as read
    gr_action,          \* grounder: the pddl.Action parse_domain built (Option)
    gr_sets,            \* grounder: world_sets
    gr_substitutions,   \* grounder: substitutions_per_action (Option)
    gr_expanded,        \* grounder: what expand_action returned (Option)
    gr_raised,          \* grounder: the exception raised, if any
    bw_types,           \* build_world_sets: domain[0], the dict of :types
    bw_constants,       \* build_world_sets: domain[1], the dict of :constants
    bw_objects,         \* build_world_sets: problem[0], the dict of :objects
    bw_world_sets,      \* build_world_sets: world_sets (Option)
    bw_raised,          \* build_world_sets: the exception raised, if any
    bw_pc,              \* build_world_sets: "merge", "complete", "all", "done", "raised"
    hr_state,           \* heuristic: the node it is called with
    hr_rpg,             \* heuristic: relaxed_plan_graph
    hr_h,               \* heuristic: the value returned (Option)
    hr_pc,              \* heuristic: "loop", "extract", "done"
    qf_world,           \* formulas: the world
    qf_formula,         \* formulas: the formula
    qf_variable,        \* formulas: the variable substitute is called with
    qf_value,           \* formulas: the value substitute is called with
    qf_models,          \* formulas: models(world, formula) (Option)
    qf_substituted,     \* formulas: substitute(formula, variable, value) (Option)
    qf_substituted_models, \* formulas: models(world, qf_substituted) (Option)
    rd_tokens,          \* reader: the tokens of the file, in order
    rd_stack,           \* reader: stack of get_stack_from_pddl
    rd_read,            \* reader: number of tokens the loop of line 35 has taken
    rd_domain,          \* reader: what parse_domain returned (Option)
    rd_raised,          \* reader: the exception raised, if any
    rd_pc               \* reader: "tokens", "parse", "done", "raised"

astar_vars == <<open_list, closed_list, i, current_node_info, edges_left,
                edge_path, distance, result, pc, pushed, expansions, replacements>>
input_vars == <<mode, graph, hval, goal_ids, expanded_expressions, problem_goal, useheuristic>>
expr_vars == <<ex_world, ex_effect, new_world, relaxed_world, raised>>
ground_vars == <<gr_types, gr_tokens, gr_action, gr_sets, gr_substitutions,
                 gr_expanded, gr_raised>>
sets_vars == <<bw_types, bw_constants, bw_objects, bw_world_sets, bw_raised, bw_pc>>
heuristic_vars == <<hr_state, hr_rpg, hr_h, hr_pc>>
formula_vars == <<qf_world, qf_formula, qf_variable, qf_value, qf_models, qf_substituted,
                  qf_substituted_models>>
reader_vars == <<rd_tokens, rd_stack, rd_read, rd_domain, rd_raised, rd_pc>>
vars == <<input_vars, astar_vars, expr_vars, ground_vars, sets_vars, heuristic_vars,
          formula_vars, reader_vars>>

(***************************************************************************)
(* Python's None and an optional value, as sequences of length 0 and 1.    *)
(***************************************************************************)
None == <<>>
Some(x) == <<x>>
IsNone(o) == Len(o) = 0
Val(o) == o[1]

(***************************************************************************)
(* expressions.py: the formula classes.  A formula is a record             *)
(* [op, name, args]; args is the sequence of operands.                     *)
(***************************************************************************)
Constant(v) == [op |-> "const", name |-> v, args |-> <<>>]
Atom(pred, parameters) == [op |-> "atom", name |-> pred, args |-> parameters]
Or(operands) == [op |-> "or", name |-> "", args |-> operands]
And(operands) == [op |-> "and", name |-> "", args |-> operands]
Imply(operands) == [op |-> "imply", name |-> "", args |-> operands]
Equals(operands) == [op |-> "equals", name |-> "", args |-> operands]
When(operands) == [op |-> "when", name |-> "", args |-> operands]
Not(operand) == [op |-> "not", name |-> "", args |-> <<operand>>]
\* VariableSpec(elements): elements[0] is the variable, elements[2] the set name
VariableSpec(elements) ==
    [op |-> "varspec", name |-> elements[1],
     args |-> [k \in 1..Len(elements) |-> Constant(elements[k])]]
ForAll(operands) == [op |-> "forall", name |-> "", args |-> operands]
Exists(operands) == [op |-> "exists", name |-> "", args |-> operands]

World(atoms, sets) == [atoms |-> atoms, sets |-> sets]

\* a quantifier that ranges over sets[""] whatever its specification
quantifier_set_untyped(varspec, world) == world.sets[""]

\* the set a quantifier ranges over (ForAll.get_expanded_for_all, Exists.is_modeled_by)
quantifier_set(varspec, world) ==
    IF Len(varspec.args) = 3 THEN world.sets[varspec.args[3].name] ELSE world.sets[""]

\* a substitute that hands the formula back as it is (LogicalFormula.substitute)
substitute_keeps(e, variable, value) == e

\* X.substitute(variable, value) of every formula class
RECURSIVE substitute(_, _, _)
substitute(e, variable, value) ==
    LET subs(ops) == [k \in 1..Len(ops) |-> substitute(ops[k], variable, value)]
    IN  CASE e.op = "const" -> IF e.name = variable THEN Constant(value) ELSE e
          [] e.op = "atom" -> Atom(e.name, subs(e.args))
          [] e.op = "or" -> Or(subs(e.args))
          [] e.op = "and" -> And(subs(e.args))
          [] e.op = "imply" -> Imply(<<substitute(e.args[1], variable, value),
                                      substitute(e.args[2], variable, value)>>)
          [] e.op = "equals" -> Equals(<<substitute(e.args[1], variable, value),
                                        substitute(e.args[2], variable, value)>>)
          [] e.op = "when" -> When(<<substitute(e.args[1], variable, value),
                                    substitute(e.args[2], variable, value)>>)
          [] e.op = "not" -> Not(substitute(e.args[1], variable, value))
          [] e.op = "forall" -> ForAll(<<e.args[1], substitute(e.args[2], variable, value)>>)
          [] e.op = "exists" -> ForAll(<<e.args[1], substitute(e.args[2], variable, value)>>)

\* the list a quantifier expands to: the body once per value of its set
expanded_list(e, world) ==
    LET set == quantifier_set(e.args[1], world)
    IN  [k \in 1..Len(set) |-> substitute(e.args[2], e.args[1].name, set[k])]

\* X.is_modeled_by(world) of every formula class
RECURSIVE is_modeled_by(_, _)
is_modeled_by(e, world) ==
    CASE e.op = "atom" -> e \in world.atoms
      [] e.op = "or" -> \E k \in 1..Len(e.args) : is_modeled_by(e.args[k], world)
      [] e.op = "and" -> \A k \in 1..Len(e.args) : is_modeled_by(e.args[k], world)
      [] e.op = "imply" ->
            ~is_modeled_by(e.args[1], world) \/ is_modeled_by(e.args[2], world)
      [] e.op = "equals" -> e.args[1] = e.args[2]
      [] e.op = "not" -> ~is_modeled_by(e.args[1], world)
      [] e.op = "forall" -> is_modeled_by(And(expanded_list(e, world)), world)
      [] e.op = "exists" -> is_modeled_by(Or(expanded_list(e, world)), world)
      [] OTHER -> FALSE

\* a pair (additions, deletions); failed when a class without get_changes
\* (LogicalFormula.get_changes returns None) was asked for its changes
Changes(additions, deletions, failed) ==
    [additions |-> additions, deletions |-> deletions, failed |-> failed]

\* Not.get_changes
not_get_changes(operand, world) ==
    IF is_modeled_by(operand, world)
    THEN Changes({}, {operand}, FALSE)
    ELSE Changes({operand}, {}, FALSE)

\* Atom.get_changes
atom_get_changes(e, world) ==
    IF ~is_modeled_by(e, world)
    THEN Changes({e}, {}, FALSE)
    ELSE Changes({}, {}, FALSE)

\* X.get_changes(world) of every formula class
RECURSIVE get_changes(_, _)
RECURSIVE and_get_changes(_, _, _)

\* a conjunction whose operands each see the changes of the operands before them
RECURSIVE sequential_get_changes(_, _, _)
sequential_get_changes(operands, world, acc) ==
    IF operands = <<>> THEN acc
    ELSE LET changes == get_changes(Head(operands), world)
             seen == World((world.atoms \cup changes.additions) \ changes.deletions,
                           world.sets)
         IN  IF changes.failed THEN Changes(acc.additions, acc.deletions, TRUE)
             ELSE sequential_get_changes(Tail(operands), seen,
                      Changes(acc.additions \cup changes.additions,
                              acc.deletions \cup changes.deletions, FALSE))

and_get_changes(operands, world, acc) ==
    IF operands = <<>> THEN acc
    ELSE LET changes == get_changes(Head(operands), world)
         IN  IF changes.failed THEN Changes(acc.additions, acc.deletions, TRUE)
             ELSE and_get_changes(Tail(operands), world,
                      Changes(acc.additions \cup changes.additions,
                              acc.deletions \cup changes.deletions, FALSE))

get_changes(e, world) ==
    CASE e.op = "atom" -> atom_get_changes(e, world)
      [] e.op = "and" -> and_get_changes(e.args, world, Changes({}, {}, FALSE))
      [] e.op = "when" ->
            IF is_modeled_by(e.args[1], world)
            THEN get_changes(e.args[2], world)
            ELSE Changes({}, {}, FALSE)
      [] e.op = "forall" ->
            and_get_changes(expanded_list(e, world), world, Changes({}, {}, FALSE))
      [] e.op = "not" -> not_get_changes(e.args[1], world)
      [] OTHER -> Changes({}, {}, TRUE)

\* an apply whose new world has no sets
world_apply_without_sets(world, effect) ==
    LET changes == get_changes(effect, world)
    IN  World((world.atoms \cup changes.additions) \ changes.deletions, <<>>)

\* World.apply (the effect has get_changes)
world_apply(world, effect) ==
    LET changes == get_changes(effect, world)
    IN  World((world.atoms \cup changes.additions) \ changes.deletions, world.sets)

\* World.apply_relaxed (the effect has get_changes)
world_apply_relaxed(world, effect) ==
    LET changes == get_changes(effect, world)
    IN  World(world.atoms \cup changes.additions, world.sets)

\* expressions.models and expressions.apply
models(world, condition) == is_modeled_by(condition, world)
apply(world, effect) == world_apply(world, effect)

(***************************************************************************)
(* Abstract syntax trees as the PDDL reader hands them over: a symbol (a   *)
(* Python string) or a list of trees.                                      *)
(***************************************************************************)
Sym(s) == [list |-> FALSE, sym |-> s, kids |-> <<>>]
List(kids) == [list |-> TRUE, sym |-> "", kids |-> kids]

\* the symbols that start with "?" (ast[0].startswith("?"))
VariableNames == {"?p1", "?p2", "?p3", "?p4", "?p5", "?p6", "?p7", "?x", "?y"}

\* expressions.make_expression
RECURSIVE make_expression(_)
make_expression(ast) ==
    IF ast.list
    THEN LET head == ast.kids[1].sym
             rest == [k \in 1..(Len(ast.kids) - 1) |-> make_expression(ast.kids[k + 1])]
         IN  CASE head = "or" -> Or(rest)
               [] head = "and" -> And(rest)
               [] head = "imply" -> Imply(<<rest[1], rest[2]>>)
               [] head = "=" -> Equals(<<rest[1], rest[2]>>)
               [] head = "when" -> When(<<rest[1], rest[2]>>)
               [] head = "forall" -> ForAll(<<rest[1], rest[2]>>)
               [] head = "exists" -> Exists(<<rest[1], rest[2]>>)
               [] head \in VariableNames ->
                    VariableSpec([k \in 1..Len(ast.kids) |-> ast.kids[k].sym])
               [] head = "not" -> Not(rest[1])
               [] OTHER -> Atom(head, rest)
    ELSE Constant(ast.sym)

\* expressions.make_world
make_world(atoms, sets) ==
    World({make_expression(atoms[k]) : k \in 1..Len(atoms)}, sets)

(***************************************************************************)
(* pddl.process_parameters.  A Python dict is a sequence of key/value      *)
(* pairs in insertion order.                                               *)
(***************************************************************************)
dict_has(d, key) == \E k \in 1..Len(d) : d[k].key = key
dict_get(d, key) == d[CHOOSE k \in 1..Len(d) : d[k].key = key].value
dict_set(d, key, value) ==
    IF dict_has(d, key)
    THEN [k \in 1..Len(d) |-> IF d[k].key = key THEN [key |-> key, value |-> value] ELSE d[k]]
    ELSE Append(d, [key |-> key, value |-> value])
dict_keys(d) == [k \in 1..Len(d) |-> d[k].key]

\* the for loop of process_parameters from token k on; raised when
\* list.append(*param_of_type) is not given exactly one argument
RECURSIVE process_parameters_loop(_, _, _, _, _, _, _)
process_parameters_loop(parameters, k, parameters_map, param_of_type, dash_found, cnt, store_order) ==
    IF k > Len(parameters)
    THEN [map |-> IF Len(param_of_type) > 0
                  THEN dict_set(parameters_map, "", param_of_type)
                  ELSE parameters_map,
          raised |-> FALSE]
    ELSE LET param_part == parameters[k]
         IN  IF dash_found
             THEN IF dict_has(parameters_map, param_part)
                  THEN IF Len(param_of_type) = 1
                       THEN process_parameters_loop(parameters, k + 1,
                                dict_set(parameters_map, param_part,
                                    Append(dict_get(parameters_map, param_part),
                                           param_of_type[1])),
                                <<>>, FALSE, cnt, store_order)
                       ELSE [map |-> parameters_map, raised |-> TRUE]
                  ELSE process_parameters_loop(parameters, k + 1,
                           dict_set(parameters_map, param_part, param_of_type),
                           <<>>, FALSE, cnt, store_order)
             ELSE IF param_part # "-"
                  THEN IF store_order
                       THEN process_parameters_loop(parameters, k + 1, parameters_map,
                                Append(param_of_type, <<param_part, cnt>>), FALSE,
                                cnt + 1, store_order)
                       ELSE process_parameters_loop(parameters, k + 1, parameters_map,
                                Append(param_of_type, param_part), FALSE, cnt,
                                store_order)
                  ELSE process_parameters_loop(parameters, k + 1, parameters_map,
                           param_of_type, TRUE, cnt, store_order)

process_parameters(parameters, store_order) ==
    process_parameters_loop(parameters, 1, <<>>, <<>>, FALSE, 0, store_order)

(***************************************************************************)
(* planner.py: the grounder                                                *)
(***************************************************************************)
\* pddl.Action
Action(name, parameters, precondition, eff) ==
    [name |-> name, parameters |-> parameters, precondition |-> precondition,
     effect |-> eff]

ExpandedExpression(name, expression, parameters) ==
    [name |-> name, expression |-> expression, parameters |-> parameters]

\* list.insert(index, value), index >= 0
list_insert(lst, index, value) ==
    IF index >= Len(lst) THEN Append(lst, value)
    ELSE SubSeq(lst, 1, index) \o <<value>> \o SubSeq(lst, index + 1, Len(lst))

\* lines 98-109: the body of the inner loop of expand_expressions
new_expanded_expression(expanded_expression, substitution_per_param) ==
    LET param_name == substitution_per_param[1][1]
        param_order == substitution_per_param[1][2]
        value == substitution_per_param[2]
    IN  ExpandedExpression(expanded_expression.name,
            substitute(expanded_expression.expression, param_name, value),
            list_insert(expanded_expression.parameters, param_order, value))

\* expand_expressions whose outer loop stops after the first value
expand_expressions_first_value(substitution_per_action, expressions_to_expand) ==
    [k \in 1..Len(expressions_to_expand) |->
        new_expanded_expression(expressions_to_expand[k], substitution_per_action[1])]

\* expand_expressions with the two loops in the source's order
expand_expressions(substitution_per_action, expressions_to_expand) ==
    LET n == Len(expressions_to_expand)
    IN  [k \in 1..(Len(substitution_per_action) * n) |->
            new_expanded_expression(expressions_to_expand[((k - 1) % n) + 1],
                                    substitution_per_action[((k - 1) \div n) + 1])]

RECURSIVE expand_loop(_, _)
expand_loop(substitutions_per_action, expressions_to_expand) ==
    IF substitutions_per_action = <<>> THEN expressions_to_expand
    ELSE expand_loop(Tail(substitutions_per_action),
                     expand_expressions(Head(substitutions_per_action),
                                        expressions_to_expand))

expand_action(action, substitutions_per_action) ==
    LET when_expression_list == List(<<Sym("when"), action.precondition, action.effect>>)
        when_expression == make_expression(when_expression_list)
    IN  expand_loop(substitutions_per_action,
                    <<ExpandedExpression(action.name, when_expression, <<>>)>>)

\* plan, lines 274-280: the substitutions of the parameters of one type
substitutions_of_type(parameters_of_type, ground_params) ==
    [k \in 1..Len(parameters_of_type) |->
        [j \in 1..Len(ground_params) |-> <<parameters_of_type[k], ground_params[j]>>]]

\* plan, lines 269-280; world_sets has every parameter type as a key
RECURSIVE substitutions_loop(_, _)
substitutions_loop(parameters, world_sets) ==
    IF parameters = <<>> THEN <<>>
    ELSE substitutions_of_type(Head(parameters).value, world_sets[Head(parameters).key])
         \o substitutions_loop(Tail(parameters), world_sets)

get_substitutions_per_action(action, world_sets) ==
    substitutions_loop(action.parameters, world_sets)

\* substitutions that take a type that is no key of world_sets as a type
\* without objects (world_sets.get(parameter_type, []))
RECURSIVE substitutions_loop_get(_, _)
substitutions_loop_get(parameters, world_sets) ==
    IF parameters = <<>> THEN <<>>
    ELSE substitutions_of_type(Head(parameters).value,
             IF Head(parameters).key \in DOMAIN world_sets
             THEN world_sets[Head(parameters).key] ELSE <<>>)
         \o substitutions_loop_get(Tail(parameters), world_sets)

substitutions_or_nothing(action, world_sets) ==
    Some(substitutions_loop_get(action.parameters, world_sets))

\* plan, lines 269-280, for any world_sets: None when world_sets[parameter_type]
\* at line 278 raises KeyError
substitutions_or_raise(action, world_sets) ==
    IF \E k \in 1..Len(action.parameters) :
           /\ action.parameters[k].key \notin DOMAIN world_sets
           /\ Len(action.parameters[k].value) > 0
    THEN None
    ELSE Some(get_substitutions_per_action(action, world_sets))

(***************************************************************************)
(* planner.py: the type universe.  The value of a key of world_sets is a   *)
(* Python list; an element of it is an object identifier or, after         *)
(* merge_dictionaries, a list again.                                       *)
(***************************************************************************)
Obj(id) == [id |-> id, items |-> <<>>]
Nested(items) == [id |-> "", items |-> items]

\* the dict process_parameters returns for objects or constants, its
\* symbols as list elements
object_dict(parsed) ==
    [k \in 1..Len(parsed) |->
        [key |-> parsed[k].key,
         value |-> [j \in 1..Len(parsed[k].value) |-> Obj(parsed[k].value[j])]]]

\* {**dict1, **dict2}
RECURSIVE dict_update(_, _)
dict_update(dict1, dict2) ==
    IF dict2 = <<>> THEN dict1
    ELSE dict_update(dict_set(dict1, Head(dict2).key, Head(dict2).value), Tail(dict2))

\* planner.merge_dictionaries
merge_dictionaries(dict1, dict2) ==
    LET dict3 == dict_update(dict1, dict2)
    IN  [k \in 1..Len(dict3) |->
            IF dict_has(dict1, dict3[k].key) /\ dict_has(dict2, dict3[k].key)
            THEN [key |-> dict3[k].key,
                  value |-> <<Nested(dict3[k].value),
                              Nested(dict_get(dict1, dict3[k].key))>>]
            ELSE dict3[k]]

\* planner.get_all_child_objects: the list, or raised for the KeyError of
\* types[subtype]
RECURSIVE get_all_child_objects(_, _, _)
get_all_child_objects(subtypes, world_sets, types) ==
    IF subtypes = <<>> THEN [objects |-> <<>>, raised |-> FALSE]
    ELSE LET subtype == Head(subtypes)
             rest == get_all_child_objects(Tail(subtypes), world_sets, types)
             below == get_all_child_objects(dict_get(types, subtype), world_sets, types)
         IN  IF dict_has(world_sets, subtype)
             THEN [objects |-> dict_get(world_sets, subtype) \o rest.objects,
                   raised |-> rest.raised]
             ELSE IF ~dict_has(types, subtype)
                  THEN [objects |-> <<>>, raised |-> TRUE]
                  ELSE IF below.raised THEN [objects |-> <<>>, raised |-> TRUE]
                       ELSE [objects |-> below.objects \o rest.objects,
                             raised |-> rest.raised]

\* the for loop of complete_hierarchy from entry k of types on
RECURSIVE complete_hierarchy_loop(_, _, _)
complete_hierarchy_loop(world_sets, types, k) ==
    IF k > Len(types) THEN [sets |-> world_sets, raised |-> FALSE]
    ELSE LET type == types[k].key
             subtypes == types[k].value
             children == get_all_child_objects(subtypes, world_sets, types)
         IN  IF Len(type) > 0
             THEN IF children.raised THEN [sets |-> world_sets, raised |-> TRUE]
                  ELSE complete_hierarchy_loop(
                           IF dict_has(world_sets, type)
                           THEN dict_set(world_sets, type,
                                         dict_get(world_sets, type) \o children.objects)
                           ELSE dict_set(world_sets, type, children.objects),
                           types, k + 1)
             ELSE complete_hierarchy_loop(world_sets, types, k + 1)

\* planner.complete_hierarchy
complete_hierarchy(world_sets, types) == complete_hierarchy_loop(world_sets, types, 1)

\* lines 81-84: value appended unless it is in all_objects already
RECURSIVE append_new(_, _)
append_new(all_objects, value_list) ==
    IF value_list = <<>> THEN all_objects
    ELSE append_new(IF \E k \in 1..Len(all_objects) : all_objects[k] = Head(value_list)
                    THEN all_objects
                    ELSE Append(all_objects, Head(value_list)),
                    Tail(value_list))

\* lines 80-84: the loop over world_sets.values() from entry k on
RECURSIVE all_objects_loop(_, _, _)
all_objects_loop(world_sets, all_objects, k) ==
    IF k > Len(world_sets) THEN all_objects
    ELSE all_objects_loop(world_sets, append_new(all_objects, world_sets[k].value), k + 1)

\* lines 79-85 of build_world_sets
add_all_objects(world_sets) ==
    dict_set(world_sets, "", all_objects_loop(world_sets, <<>>, 1))

(***************************************************************************)
(* graph.Edge and the planning node graph.ExpressionNode.  The node holds  *)
(* a world and the template that led to it; the list of ground templates   *)
(* every node shares is expanded_expressions.                              *)
(***************************************************************************)
\* graph.Edge(target, cost, name)
Edge(target, cost, name) == [name |-> name, target |-> target, cost |-> cost]

\* graph.ExpressionNode(world, actions, preceding_action); actions is the
\* shared list
ExpressionNode(world, preceding_action) ==
    [world |-> world, preceding_action |-> preceding_action]

\* ExpandedExpression.get_expanded_exp_name, kept as the pair it is printed from
get_expanded_exp_name(template) == <<template.name, template.parameters>>

\* the precondition of a ground template: the condition of its when
template_precondition(template) == template.expression.args[1]

\* ExpressionNode.get_neighbors(relaxed): one edge of cost 1 for every
\* template whose precondition the world models, from template k on
RECURSIVE neighbors_from(_, _, _)
neighbors_from(node, relaxed, k) ==
    IF k > Len(expanded_expressions) THEN <<>>
    ELSE LET template == expanded_expressions[k]
             target_world == IF relaxed
                             THEN world_apply_relaxed(node.world, template.expression)
                             ELSE world_apply(node.world, template.expression)
         IN  (IF models(node.world, template_precondition(template))
              THEN <<Edge(ExpressionNode(target_world, Some(template)), 1,
                          get_expanded_exp_name(template))>>
              ELSE <<>>)
             \o neighbors_from(node, relaxed, k + 1)

expression_node_get_neighbors(node, relaxed) == neighbors_from(node, relaxed, 1)

(***************************************************************************)
(* planner.plan: isgoal and the relaxed-plan heuristic.  The relaxed plan  *)
(* graph is a sequence of layers [actions, props]; first_goal_levels is a  *)
(* function from the level to the set of sub-goals first met there, the    *)
(* empty set standing for a key the dict does not have.                    *)
(***************************************************************************)
MagicLargeNumber == 1000

isgoal(state) == models(state.world, make_expression(problem_goal))

Layer(actions_layer, props_layer) == [actions |-> actions_layer, props |-> props_layer]

\* line 160: the relaxed neighbors of the last proposition layer
relaxed_actions_layer(props_layer) == expression_node_get_neighbors(props_layer, TRUE)

\* lines 162-164 with the new atoms only
next_props_only_new(props_layer, actions_layer) ==
    UNION {actions_layer[k].target.world.atoms : k \in 1..Len(actions_layer)}
        \ props_layer.world.atoms

\* lines 162-164: the atoms of the layer and of the targets of the actions
next_props(props_layer, actions_layer) ==
    props_layer.world.atoms
        \cup UNION {actions_layer[k].target.world.atoms : k \in 1..Len(actions_layer)}

\* lines 158, 167: the while loop goes on to append a layer
loop_continues(props_layer) ==
    /\ ~isgoal(props_layer)
    /\ ~(next_props(props_layer, relaxed_actions_layer(props_layer))
            \subseteq props_layer.world.atoms)

\* lines 170-174: the layer appended to relaxed_plan_graph
next_layer(props_layer) ==
    LET actions_layer == relaxed_actions_layer(props_layer)
    IN  Layer(actions_layer,
              ExpressionNode(World(next_props(props_layer, actions_layer),
                                   props_layer.world.sets),
                             props_layer.preceding_action))

\* lines 158-174: the while loop of heuristic
RECURSIVE heuristic_loop(_)
heuristic_loop(relaxed_plan_graph) ==
    LET props_layer == relaxed_plan_graph[Len(relaxed_plan_graph)].props
    IN  IF loop_continues(props_layer)
        THEN heuristic_loop(Append(relaxed_plan_graph, next_layer(props_layer)))
        ELSE relaxed_plan_graph

\* lines 214-225: the first level whose world models sub_goal, -1 if none
RECURSIVE first_level(_, _, _)
first_level(rpg, sub_goal, level) ==
    IF level >= Len(rpg) THEN -1
    ELSE IF models(rpg[level + 1].props.world, sub_goal) THEN level
    ELSE first_level(rpg, sub_goal, level + 1)

\* lines 213-225: the loop over the sub-goals
RECURSIVE goal_levels_loop(_, _, _)
goal_levels_loop(rpg, operands, first_goal_levels) ==
    IF operands = <<>> THEN first_goal_levels
    ELSE LET level == first_level(rpg, Head(operands), 0)
         IN  goal_levels_loop(rpg, Tail(operands),
                 IF level = -1 THEN first_goal_levels
                 ELSE [first_goal_levels EXCEPT ![level] = @ \cup {Head(operands)}])

get_first_goal_levels(rpg, goal_expression, first_goal_levels) ==
    goal_levels_loop(rpg,
                     IF goal_expression.op = "atom" THEN <<goal_expression>>
                     ELSE goal_expression.args,
                     first_goal_levels)

\* lines 240-252: the first action of the layer that brings sub_goal in,
\* 0 if the layer has none
RECURSIVE first_introducing(_, _, _, _)
first_introducing(rpg, layer_index, sub_goal, k) ==
    LET actions_layer == rpg[layer_index + 1].actions
        previous_props_layer == rpg[((layer_index - 1) % Len(rpg)) + 1].props
    IN  IF k > Len(actions_layer) THEN 0
        ELSE IF /\ models(actions_layer[k].target.world, sub_goal)
                /\ ~models(previous_props_layer.world, sub_goal)
             THEN k
             ELSE first_introducing(rpg, layer_index, sub_goal, k + 1)

\* lines 238-253: the loop over the layers for one sub-goal
RECURSIVE action_levels_of(_, _, _, _)
action_levels_of(rpg, first_goal_levels, sub_goal, layer_index) ==
    IF layer_index >= Len(rpg) THEN first_goal_levels
    ELSE LET k == first_introducing(rpg, layer_index, sub_goal, 1)
             action == rpg[layer_index + 1].actions[k]
             preconditions == template_precondition(Val(action.target.preceding_action))
         IN  action_levels_of(rpg,
                 IF k = 0 THEN first_goal_levels
                 ELSE get_first_goal_levels(rpg, preconditions, first_goal_levels),
                 sub_goal, layer_index + 1)

\* line 235: the loop over the sub-goals of the layer, a set
RECURSIVE action_levels_loop(_, _, _)
action_levels_loop(rpg, first_goal_levels, sub_goals) ==
    IF sub_goals = {} THEN first_goal_levels
    ELSE LET sub_goal == CHOOSE g \in sub_goals : TRUE
         IN  action_levels_loop(rpg,
                 action_levels_of(rpg, first_goal_levels, sub_goal, 0),
                 sub_goals \ {sub_goal})

get_first_action_levels(rpg, first_goal_levels, layer) ==
    action_levels_loop(rpg, first_goal_levels, first_goal_levels[layer])

\* lines 194-198: the backtracking loop from level k down to 1
RECURSIVE backtrack(_, _, _)
backtrack(rpg, first_goal_levels, k) ==
    IF k <= 0 THEN first_goal_levels
    ELSE backtrack(rpg,
             IF first_goal_levels[k] # {}
             THEN get_first_action_levels(rpg, first_goal_levels, k)
             ELSE first_goal_levels,
             k - 1)

\* lines 200-202
RECURSIVE sum_of_sizes(_, _)
sum_of_sizes(first_goal_levels, k) ==
    IF k < 0 THEN 0
    ELSE Cardinality(first_goal_levels[k]) + sum_of_sizes(first_goal_levels, k - 1)

\* max(first_goal_levels.keys()) of a dict with a key
max_level(first_goal_levels, k) ==
    CHOOSE m \in 0..k : first_goal_levels[m] # {} /\ \A n \in (m + 1)..k : first_goal_levels[n] = {}

\* extract_plan_size without the sentinel: the size of what was extracted
extract_plan_size_without_sentinel(rpg) ==
    LET last == Len(rpg) - 1
        first_goal_levels ==
            get_first_goal_levels(rpg, make_expression(problem_goal), [k \in 0..last |-> {}])
    IN  sum_of_sizes(first_goal_levels, last)

extract_plan_size(rpg) ==
    LET goal_expression == make_expression(problem_goal)
        final_state == rpg[Len(rpg)].props
        last == Len(rpg) - 1
        first_goal_levels == get_first_goal_levels(rpg, goal_expression, [k \in 0..last |-> {}])
        first_goal_levels_max == max_level(first_goal_levels, last)
    IN  IF ~isgoal(final_state) THEN MagicLargeNumber
        ELSE sum_of_sizes(backtrack(rpg, first_goal_levels, first_goal_levels_max), last)

\* the heuristic of plan, lines 150-177
plan_heuristic(state, action) ==
    extract_plan_size(heuristic_loop(<<Layer(<<>>, state)>>))

\* line 213: goal.operands of a Not raises AttributeError (Not keeps its
\* operand in self.operand); an Atom is wrapped in an And at line 210
no_operands(goal_expression) == goal_expression.op = "not"

\* lines 238-251 for one sub-goal: get_first_goal_levels is called with the
\* precondition of an action that brings the sub-goal in, and raises
sub_goal_raises(rpg, sub_goal) ==
    \E layer_index \in 0..(Len(rpg) - 1) :
        LET k == first_introducing(rpg, layer_index, sub_goal, 1)
            action == rpg[layer_index + 1].actions[k]
        IN  k # 0 /\ no_operands(template_precondition(Val(action.target.preceding_action)))

\* lines 194-198: the backtracking loop raises at level k or below
RECURSIVE backtrack_raises(_, _, _)
backtrack_raises(rpg, first_goal_levels, k) ==
    IF k <= 0 THEN FALSE
    ELSE \/ \E sub_goal \in first_goal_levels[k] : sub_goal_raises(rpg, sub_goal)
         \/ backtrack_raises(rpg,
                IF first_goal_levels[k] # {}
                THEN get_first_action_levels(rpg, first_goal_levels, k)
                ELSE first_goal_levels,
                k - 1)

\* extract_plan_size raises AttributeError instead of returning a value
extract_plan_size_raises(rpg) ==
    LET goal_expression == make_expression(problem_goal)
        last == Len(rpg) - 1
        first_goal_levels == get_first_goal_levels(rpg, goal_expression, [k \in 0..last |-> {}])
    IN  /\ isgoal(rpg[Len(rpg)].props)
        /\ \/ no_operands(goal_expression)
           \/ backtrack_raises(rpg, first_goal_levels, max_level(first_goal_levels, last))

plan_heuristic_raises(state, action) ==
    extract_plan_size_raises(heuristic_loop(<<Layer(<<>>, state)>>))

\* pathfinding.default_heuristic
default_heuristic(n, edge) == 0

(***************************************************************************)
(* Bounds of the static graphs the search is run on.                       *)
(***************************************************************************)
MaxCost == 2
MaxH == 2

StartId == 1
GoalId == 4
Nodes == {1, 2, 3, 4}
\* the places where a graph of the family may have an edge, in neighbor order
EdgeSlots == << <<1, 2>>, <<1, 3>>, <<2, 3>>, <<2, 4>>, <<3, 4>> >>
Absent == MaxCost + 1

\* the name of the edge from src to tgt
EdgeName(src, tgt) == <<src, tgt>>

RECURSIVE EdgesFrom(_, _, _)
EdgesFrom(n, costs, k) ==
    IF k > Len(EdgeSlots) THEN <<>>
    ELSE IF EdgeSlots[k][1] = n /\ costs[k] # Absent
         THEN <<Edge(EdgeSlots[k][2], costs[k], EdgeName(n, EdgeSlots[k][2]))>> \o EdgesFrom(n, costs, k + 1)
         ELSE EdgesFrom(n, costs, k + 1)

MakeGraph(costs) == [n \in Nodes |-> EdgesFrom(n, costs, 1)]

(***************************************************************************)
(* graph.Node interface                                                    *)
(***************************************************************************)
\* a static node is its id; planning nodes compare by their atoms
get_id(node) == IF mode = "plan" THEN node.world.atoms ELSE node
get_neighbors(node) ==
    IF mode = "plan" THEN expression_node_get_neighbors(node, FALSE) ELSE graph[node]
\* the heuristic argument of astar
heuristic(node, edge) ==
    IF mode = "plan"
    THEN IF useheuristic THEN plan_heuristic(node, edge) ELSE default_heuristic(node, edge)
    ELSE hval[node]
\* the call of the heuristic at line 101 raises
heuristic_raises(node, edge) ==
    mode = "plan" /\ useheuristic /\ plan_heuristic_raises(node, edge)
\* the goal argument of astar
goal(node) == IF mode = "plan" THEN isgoal(node) ELSE get_id(node) \in goal_ids

(***************************************************************************)
(* heapq on a Python list.  Positions are 0-based as in the source; the    *)
(* list element at position p is heap[p + 1].  Entries compare as tuples   *)
(* (f, i, ...): i is unique per entry, so the comparison ends there.       *)
(***************************************************************************)
TupleLess(a, b) == a.f < b.f \/ (a.f = b.f /\ a.i < b.i)

RECURSIVE siftdown(_, _, _, _)
siftdown(heap, startpos, pos, newitem) ==
    IF pos > startpos
    THEN LET parentpos == (pos - 1) \div 2
             parent == heap[parentpos + 1]
         IN  IF TupleLess(newitem, parent)
             THEN siftdown([heap EXCEPT ![pos + 1] = parent], startpos, parentpos, newitem)
             ELSE [heap EXCEPT ![pos + 1] = newitem]
    ELSE [heap EXCEPT ![pos + 1] = newitem]

heappush(heap, item) ==
    LET h1 == Append(heap, item)
    IN  siftdown(h1, 0, Len(h1) - 1, item)

RECURSIVE siftup_loop(_, _, _, _)
siftup_loop(heap, startpos, pos, newitem) ==
    LET endpos == Len(heap)
        childpos == 2 * pos + 1
    IN  IF childpos < endpos
        THEN LET rightpos == childpos + 1
                 c == IF rightpos < endpos /\ ~TupleLess(heap[childpos + 1], heap[rightpos + 1])
                      THEN rightpos ELSE childpos
             IN  siftup_loop([heap EXCEPT ![pos + 1] = heap[c + 1]], startpos, c, newitem)
        ELSE siftdown([heap EXCEPT ![pos + 1] = newitem], startpos, pos, newitem)

siftup(heap, pos) == siftup_loop(heap, pos, pos, heap[pos + 1])

\* heappop of a non-empty list: the pair (returned item, list afterwards)
heappop(heap) ==
    LET lastelt == heap[Len(heap)]
        rest == SubSeq(heap, 1, Len(heap) - 1)
    IN  IF Len(rest) > 0
        THEN [item |-> rest[1], heap |-> siftup([rest EXCEPT ![1] = lastelt], 0)]
        ELSE [item |-> lastelt, heap |-> rest]

\* del open_list[k] left out: the list keeps the entry
del_index_keeps(lst, k) == lst

\* del open_list[k] (k 0-based)
del_index(lst, k) == SubSeq(lst, 1, k) \o SubSeq(lst, k + 2, Len(lst))

(***************************************************************************)
(* pathfinding.py helpers                                                  *)
(***************************************************************************)
RECURSIVE index_from(_, _, _)
index_from(lst, node, k) ==
    IF k >= Len(lst) THEN -1
    ELSE IF get_id(lst[k + 1].node) = get_id(node) THEN k
    ELSE index_from(lst, node, k + 1)

get_node_index_in_open_list(lst, node) == index_from(lst, node, 0)

\* a membership test that finds no node in closed_list
in_closed_list_never(lst, node) == FALSE

\* edge.target in closed_list
in_closed_list(lst, node) == \E k \in 1..Len(lst) : get_id(lst[k]) = get_id(node)

Reverse(s) == [k \in 1..Len(s) |-> s[Len(s) + 1 - k]]

\* the while loop of get_edge_path: edges appended from the goal backwards
RECURSIVE edge_path_backwards(_)
edge_path_backwards(node_info) ==
    IF IsNone(node_info) THEN <<>>
    ELSE LET ni == Val(node_info)
         IN  (IF ~IsNone(ni.edge) THEN <<Val(ni.edge)>> ELSE <<>>)
             \o edge_path_backwards(ni.parent)

\* get_edge_path without edge_path.reverse()
get_edge_path_unreversed(goal_node_info) == edge_path_backwards(Some(goal_node_info))

get_edge_path(goal_node_info) == Reverse(edge_path_backwards(Some(goal_node_info)))

\* the 6-tuple "node info"
NodeInfo(f, cnt, node, g, parent, edge) ==
    [f |-> f, i |-> cnt, node |-> node, g |-> g, parent |-> parent, edge |-> edge]

(***************************************************************************)
(* astar                                                                   *)
(***************************************************************************)
\* lines 58-74: the state when the while loop is first reached
AstarStart(start) ==
    /\ edge_path = None
    /\ distance = None
    /\ open_list = heappush(<<>>, NodeInfo(0, 0, start, 0, None, None))
    /\ closed_list = <<>>
    /\ i = 0
    /\ current_node_info = None
    /\ edges_left = <<>>
    /\ result = None
    /\ pc = "loop"
    /\ pushed = {get_id(start)}
    /\ expansions = 0
    /\ replacements = 0

\* lines 77-95: one pass through the head of the while loop
Pop ==
    /\ pc = "loop"
    /\ Len(open_list) > 0
    /\ LET popped == heappop(open_list)
           info == popped.item
           current_node == info.node
           closed1 == Append(closed_list, current_node)
       IN  /\ open_list' = popped.heap
           /\ closed_list' = closed1
           /\ current_node_info' = Some(info)
           /\ \/ /\ goal(current_node) /\ in_closed_list(closed1, current_node)
                 /\ distance' = Some(info.g)
                 /\ edge_path' = Some(get_edge_path(info))
                 /\ pc' = "return"
                 /\ UNCHANGED <<edges_left, expansions>>
              \/ /\ ~(goal(current_node) /\ in_closed_list(closed1, current_node))
                 /\ edges_left' = get_neighbors(current_node)
                 /\ expansions' = expansions + 1
                 /\ pc' = IF get_neighbors(current_node) = <<>> THEN "loop" ELSE "expand"
                 /\ UNCHANGED <<distance, edge_path>>
    /\ UNCHANGED <<i, result, pushed, replacements, formula_vars, reader_vars, input_vars, sets_vars, heuristic_vars, expr_vars, ground_vars>>

\* lines 106-114: the edge reaches a node of open_list with a larger f
replaces_entry(lst, closed, info, edge) ==
    LET f == info.g + edge.cost + heuristic(edge.target, edge)
        idx == get_node_index_in_open_list(lst, edge.target)
    IN  /\ ~in_closed_list(closed, edge.target)
        /\ idx # -1
        /\ lst[idx + 1].f > f

\* an expansion that also replaces an entry of equal f
open_after_edge_replaces_ties(lst, closed, info, edge, cnt) ==
    LET accumulated_cost == info.g + edge.cost
        f == accumulated_cost + heuristic(edge.target, edge)
        entry == NodeInfo(f, cnt, edge.target, accumulated_cost, Some(info), Some(edge))
        idx == get_node_index_in_open_list(lst, edge.target)
    IN  IF ~in_closed_list(closed, edge.target)
        THEN IF idx = -1
             THEN heappush(lst, entry)
             ELSE IF lst[idx + 1].f >= f
                  THEN heappush(del_index(lst, idx), entry)
                  ELSE lst
        ELSE lst

\* lines 105-123: what one edge does to open_list
open_after_edge(lst, closed, info, edge, cnt) ==
    LET accumulated_cost == info.g + edge.cost
        h == heuristic(edge.target, edge)
        f == accumulated_cost + h
        entry == NodeInfo(f, cnt, edge.target, accumulated_cost, Some(info), Some(edge))
        idx == get_node_index_in_open_list(lst, edge.target)
    IN  IF ~in_closed_list(closed, edge.target)
        THEN IF idx = -1
             THEN heappush(lst, entry)
             ELSE IF lst[idx + 1].f > f
                  THEN heappush(del_index(lst, idx), entry)
                  ELSE lst
        ELSE lst

\* lines 95-123: the body of the for loop, for the next edge
ExpandEdge ==
    /\ pc = "expand"
    /\ Len(edges_left) > 0
    /\ LET edge == Head(edges_left)
           info == Val(current_node_info)
       IN  /\ i' = i + 1
           /\ IF heuristic_raises(edge.target, edge)
              THEN /\ pc' = "raised"
                   /\ UNCHANGED <<open_list, pushed, replacements, edges_left>>
              ELSE /\ open_list' = open_after_edge(open_list, closed_list, info, edge, i + 1)
                   /\ pushed' = IF ~in_closed_list(closed_list, edge.target)
                                   /\ get_node_index_in_open_list(open_list, edge.target) = -1
                                THEN pushed \cup {get_id(edge.target)}
                                ELSE pushed
                   /\ replacements' = IF replaces_entry(open_list, closed_list, info, edge)
                                      THEN replacements + 1 ELSE replacements
                   /\ edges_left' = Tail(edges_left)
                   /\ pc' = IF Tail(edges_left) = <<>> THEN "loop" ELSE "expand"
    /\ UNCHANGED <<closed_list, current_node_info, edge_path, distance, result,
                   expansions, formula_vars, reader_vars, input_vars, sets_vars, heuristic_vars, expr_vars, ground_vars>>

\* line 77: the while condition fails
LoopExit ==
    /\ pc = "loop"
    /\ Len(open_list) = 0
    /\ pc' = "return"
    /\ UNCHANGED <<open_list, closed_list, i, current_node_info, edges_left,
                   edge_path, distance, result, pushed, expansions, replacements,
                   formula_vars, reader_vars, input_vars, sets_vars, heuristic_vars, expr_vars, ground_vars>>

\* line 129: the two counters of the returned tuple
visited_count(lst, closed) == Len(lst) + Len(closed)
\* the expanded counter leaving out the node popped last
expanded_count_without_last(closed) == Len(closed) - 1

expanded_count(closed) == Len(closed)

\* a report that tests the path for truth, as print_path does: an empty path
\* is no plan
main_reports_if_path(res) ==
    IF ~IsNone(res.path) /\ Val(res.path) # <<>>
    THEN <<"Plan found with cost", Val(res.distance)>>
    ELSE <<"No plan found">>

\* planner.main: what is printed for the tuple plan returned
main_reports(res) ==
    IF ~IsNone(res.path)
    THEN <<"Plan found with cost", Val(res.distance)>>
    ELSE <<"No plan found">>

\* line 129
Return ==
    /\ pc = "return"
    /\ result' = Some([path |-> edge_path, distance |-> distance,
                       visited |-> visited_count(open_list, closed_list),
                       expanded |-> expanded_count(closed_list)])
    /\ pc' = "done"
    /\ UNCHANGED <<open_list, closed_list, i, current_node_info, edges_left,
                   edge_path, distance, pushed, expansions, replacements, formula_vars, reader_vars, input_vars, sets_vars, heuristic_vars, expr_vars, ground_vars>>

AstarNext == Pop \/ ExpandEdge \/ LoopExit \/ Return

\* the variables of the programs that are not running
ExprIdle ==
    /\ ex_world = World({}, <<>>)
    /\ ex_effect = And(<<>>)
    /\ new_world = None
    /\ relaxed_world = None
    /\ raised = {}

GroundIdle ==
    /\ gr_types = <<>>
    /\ gr_tokens = <<>>
    /\ gr_action = None
    /\ gr_sets = <<>>
    /\ gr_substitutions = None
    /\ gr_expanded = None
    /\ gr_raised = None

PlanIdle ==
    /\ expanded_expressions = <<>>
    /\ problem_goal = List(<<Sym("and")>>)
    /\ useheuristic = FALSE

FormulaIdle ==
    /\ qf_world = World({}, <<>>)
    /\ qf_formula = And(<<>>)
    /\ qf_variable = ""
    /\ qf_value = ""
    /\ qf_models = None
    /\ qf_substituted = None
    /\ qf_substituted_models = None

ReaderIdle ==
    /\ rd_tokens = <<>>
    /\ rd_stack = <<>>
    /\ rd_read = 0
    /\ rd_domain = None
    /\ rd_raised = None
    /\ rd_pc = "done"

HeuristicIdle ==
    /\ hr_state = None
    /\ hr_rpg = <<>>
    /\ hr_h = None
    /\ hr_pc = "off"

SetsIdle ==
    /\ bw_types = <<>>
    /\ bw_constants = <<>>
    /\ bw_objects = <<>>
    /\ bw_world_sets = None
    /\ bw_raised = None
    /\ bw_pc = "off"

AstarIdle ==
    /\ graph = <<>>
    /\ hval = <<>>
    /\ goal_ids = {}
    /\ PlanIdle
    /\ open_list = <<>>
    /\ closed_list = <<>>
    /\ i = 0
    /\ current_node_info = None
    /\ edges_left = <<>>
    /\ edge_path = None
    /\ distance = None
    /\ result = None
    /\ pc = "off"
    /\ pushed = {}
    /\ expansions = 0
    /\ replacements = 0

(***************************************************************************)
(* astar on the static graphs of the family: every choice of edge costs    *)
(* (or absence) for the edge slots and every heuristic table.              *)
(***************************************************************************)
Init ==
    /\ mode = "astar"
    /\ \E costs \in [1..Len(EdgeSlots) -> 0..Absent] : graph = MakeGraph(costs)
    /\ \E h2 \in 0..MaxH, h3 \in 0..MaxH :
           hval = [n \in Nodes |-> IF n = 2 THEN h2 ELSE IF n = 3 THEN h3 ELSE 0]
    /\ goal_ids = {GoalId}
    /\ PlanIdle
    /\ AstarStart(StartId)
    /\ ExprIdle
    /\ GroundIdle
    /\ SetsIdle
    /\ HeuristicIdle
    /\ FormulaIdle
    /\ ReaderIdle

Next == AstarNext

Spec == Init /\ [][Next]_vars

(***************************************************************************)
(* astar on graphs with cycles: back edges, a self loop, any subset of the *)
(* slots, with the goal at the start node, at node 4, or nowhere.          *)
(***************************************************************************)
CyclicSlots == << <<1, 2>>, <<1, 3>>, <<2, 1>>, <<2, 3>>, <<3, 2>>, <<3, 3>>, <<3, 4>> >>

\* the edges of node n in a graph given by its slots and their costs
RECURSIVE edges_of(_, _, _, _)
edges_of(n, slots, costs, k) ==
    IF k > Len(slots) THEN <<>>
    ELSE IF slots[k][1] = n /\ costs[k] # Absent
         THEN <<Edge(slots[k][2], costs[k], EdgeName(n, slots[k][2]))>>
                  \o edges_of(n, slots, costs, k + 1)
         ELSE edges_of(n, slots, costs, k + 1)

\* a back edge or self loop costs 0 or 1, a forward edge 1 to MaxCost
SlotCosts(slot) ==
    IF slot[2] <= slot[1] THEN {0, 1, Absent} ELSE (1..MaxCost) \cup {Absent}

InitCyclic ==
    /\ mode = "astar"
    /\ \E costs \in [1..Len(CyclicSlots) -> 0..Absent] :
           /\ \A k \in 1..Len(CyclicSlots) : costs[k] \in SlotCosts(CyclicSlots[k])
           /\ graph = [n \in Nodes |-> edges_of(n, CyclicSlots, costs, 1)]
    /\ \E h2 \in {0, MaxH} : hval = [n \in Nodes |-> IF n = 2 THEN h2 ELSE 0]
    /\ goal_ids \in {{StartId}, {GoalId}, {}}
    /\ PlanIdle
    /\ AstarStart(StartId)
    /\ ExprIdle
    /\ GroundIdle
    /\ SetsIdle
    /\ HeuristicIdle
    /\ FormulaIdle
    /\ ReaderIdle

SpecCyclic == InitCyclic /\ [][Next]_vars

\* astar is one sequential loop: a run that can take a step takes it.  The
\* tie-break counter counts the edges followed; no run on these graphs
\* follows MaxPushes edges.
MaxPushes == 8

ExpandEdgeCapped == i < MaxPushes /\ ExpandEdge

NextCyclicFair == Pop \/ ExpandEdgeCapped \/ LoopExit \/ Return

SpecCyclicFair == InitCyclic /\ [][NextCyclicFair]_vars /\ WF_vars(NextCyclicFair)

(***************************************************************************)
(* astar with a wide frontier: the start node has an edge to each of six   *)
(* other nodes, with costs that do not decrease in neighbor order, and     *)
(* node 2, the nearest, has edges to any of the later nodes.  The search   *)
(* runs with default_heuristic and a goal that no node satisfies.          *)
(***************************************************************************)
WideNodes == 1..7
WideSlots ==
    [k \in 1..11 |-> IF k <= 6 THEN <<StartId, k + 1>> ELSE <<2, k - 4>>]

\* the edge to node 2 is cheap, the other edges of the start node are not;
\* an edge of node 2 is cheap, or as dear as one of these, or absent
WideCosts(k) ==
    IF k = 1 THEN {1, MaxCost}
    ELSE IF k <= 6 THEN {Absent + 1, Absent + 2, Absent + 3}
    ELSE {1, Absent + 1, Absent}

InitWide ==
    /\ mode = "astar"
    /\ \E first \in WideCosts(1), far \in [2..6 -> WideCosts(2)], near \in [7..11 -> WideCosts(7)] :
           LET costs == [k \in 1..11 |-> IF k = 1 THEN first ELSE IF k <= 6 THEN far[k] ELSE near[k]]
           IN  /\ \A k \in 1..5 : costs[k] <= costs[k + 1]
               /\ graph = [n \in WideNodes |-> edges_of(n, WideSlots, costs, 1)]
    /\ hval = [n \in WideNodes |-> default_heuristic(n, None)]
    /\ goal_ids = {}
    /\ PlanIdle
    /\ AstarStart(StartId)
    /\ ExprIdle
    /\ GroundIdle
    /\ SetsIdle
    /\ HeuristicIdle
    /\ FormulaIdle
    /\ ReaderIdle

SpecWide == InitWide /\ [][Next]_vars

(***************************************************************************)
(* expressions.apply and World.apply_relaxed on the worlds over a small    *)
(* universe of ground atoms, for effects built as the docstring of apply   *)
(* allows: a literal, a conjunction of literals, a when of a literal.      *)
(***************************************************************************)
MaxOperands == 2

Predicates == {"p", "q"}
Objects == <<"a", "b">>
ExprSets == [k \in {"", "t"} |-> Objects]
GroundAtoms == {Atom(pr, <<Constant(Objects[k])>>) : pr \in Predicates, k \in 1..Len(Objects)}
Literals == GroundAtoms \cup {Not(a) : a \in GroundAtoms}
Conjunctions == UNION {{And(ops) : ops \in [1..n -> Literals]} : n \in 0..MaxOperands}
Effects ==
    Literals \cup Conjunctions
        \cup {When(<<c, l>>) : c \in GroundAtoms, l \in Literals}

\* new_world = apply(world, effect)
Apply ==
    /\ mode = "expr"
    /\ IsNone(new_world) /\ "apply" \notin raised
    /\ IF get_changes(ex_effect, ex_world).failed
       THEN raised' = raised \cup {"apply"} /\ UNCHANGED new_world
       ELSE new_world' = Some(apply(ex_world, ex_effect)) /\ UNCHANGED raised
    /\ UNCHANGED <<ex_world, ex_effect, relaxed_world, formula_vars, reader_vars, input_vars, sets_vars, heuristic_vars, astar_vars, ground_vars>>

\* relaxed_world = world.apply_relaxed(effect)
ApplyRelaxed ==
    /\ mode = "expr"
    /\ IsNone(relaxed_world) /\ "apply_relaxed" \notin raised
    /\ IF get_changes(ex_effect, ex_world).failed
       THEN raised' = raised \cup {"apply_relaxed"} /\ UNCHANGED relaxed_world
       ELSE relaxed_world' = Some(world_apply_relaxed(ex_world, ex_effect)) /\ UNCHANGED raised
    /\ UNCHANGED <<ex_world, ex_effect, new_world, formula_vars, reader_vars, input_vars, sets_vars, heuristic_vars, astar_vars, ground_vars>>

InitExpr ==
    /\ mode = "expr"
    /\ \E atoms \in SUBSET GroundAtoms : ex_world = World(atoms, ExprSets)
    /\ ex_effect \in Effects
    /\ new_world = None
    /\ relaxed_world = None
    /\ raised = {}
    /\ AstarIdle
    /\ GroundIdle
    /\ SetsIdle
    /\ HeuristicIdle
    /\ FormulaIdle
    /\ ReaderIdle

NextExpr == Apply \/ ApplyRelaxed

SpecExpr == InitExpr /\ [][NextExpr]_vars

\* C4: for every world w and ground atom a, the world returned by
\* w.apply(And([a, Not(a)])) does not contain a.
C4_ContradictionRemoves ==
    \A a \in GroundAtoms :
        (ex_effect = And(<<a, Not(a)>>) /\ ~IsNone(new_world)) => a \notin Val(new_world).atoms

\* C5: for every world w and ground atom p, the atoms of apply(w, Not(p)) do
\* not contain p, and when p is not in w.atoms they equal w.atoms.
C5_NegativeLiteralRemoves ==
    \A a \in GroundAtoms :
        (ex_effect = Not(a) /\ ~IsNone(new_world)) =>
            /\ a \notin Val(new_world).atoms
            /\ a \notin ex_world.atoms => Val(new_world).atoms = ex_world.atoms

\* C19: a world is immutable: w.apply(e) and w.apply_relaxed(e) leave the
\* atoms and the sets of w as they were, and the sets of the world they
\* return equal the sets of w; only the atoms of the returned world may differ.
C19_WorldImmutable ==
    /\ [][ex_world' = ex_world]_vars
    /\ [](~IsNone(new_world) => Val(new_world).sets = ex_world.sets)
    /\ [](~IsNone(relaxed_world) => Val(relaxed_world).sets = ex_world.sets)

C19_Witness ==
    /\ ~IsNone(new_world)
    /\ ~IsNone(relaxed_world)
    /\ Val(new_world).atoms # ex_world.atoms
    /\ Val(relaxed_world).atoms # ex_world.atoms
    /\ Val(new_world).atoms # Val(relaxed_world).atoms

(***************************************************************************)
(* apply on conjunctions with conditional effects: the children are        *)
(* literals, whens on a ground literal, conjunctions of a literal and a    *)
(* when, and foralls over ?x of a when or of a conjunction with a when.    *)
(***************************************************************************)
Whens == {When(<<c, l>>) : c \in Literals, l \in Literals}
VariableLiterals ==
    LET atoms == {Atom(pr, <<Constant("?x")>>) : pr \in Predicates}
    IN  atoms \cup {Not(a) : a \in atoms}
VariableWhens == {When(<<c, l>>) : c \in VariableLiterals, l \in VariableLiterals}
ForAlls ==
    {ForAll(<<VariableSpec(<<"?x">>), w>>) : w \in VariableWhens}
        \cup {ForAll(<<VariableSpec(<<"?x">>), And(<<l, w>>)>>) :
                    l \in VariableLiterals, w \in VariableWhens}
NestedWhens ==
    {And(<<l, When(<<c, m>>)>>) : l \in GroundAtoms, c \in GroundAtoms, m \in Literals}
        \cup {When(<<c, And(<<l, When(<<d, m>>)>>)>>) :
                    c \in GroundAtoms, l \in GroundAtoms, d \in GroundAtoms, m \in GroundAtoms}
ConditionalEffects ==
    {And(<<l, r>>) : l \in Literals \cup Whens, r \in Literals \cup Whens}
        \cup {And(<<l, r>>) : l \in Literals, r \in ForAlls \cup NestedWhens}
        \cup {And(<<l, r>>) : l \in ForAlls \cup NestedWhens, r \in Literals}

InitWhen ==
    /\ mode = "expr"
    /\ \E atoms \in SUBSET GroundAtoms : ex_world = World(atoms, ExprSets)
    /\ ex_effect \in ConditionalEffects
    /\ new_world = None
    /\ relaxed_world = None
    /\ raised = {}
    /\ AstarIdle
    /\ GroundIdle
    /\ SetsIdle
    /\ HeuristicIdle
    /\ FormulaIdle
    /\ ReaderIdle

SpecWhen == InitWhen /\ [][NextExpr]_vars

\* the literals of an effect that fire when every condition is evaluated in
\* the world the effect is applied to
RECURSIVE Fired(_, _)
Fired(e, world) ==
    CASE e.op = "and" -> UNION {Fired(e.args[k], world) : k \in 1..Len(e.args)}
      [] e.op = "when" -> IF models(world, e.args[1]) THEN Fired(e.args[2], world) ELSE {}
      [] e.op = "forall" ->
            UNION {Fired(substitute(e.args[2], e.args[1].name, d), world) :
                       d \in {world.sets[""][k] : k \in 1..Len(world.sets[""])}}
      [] OTHER -> {e}

Reversed(seq) == [k \in 1..Len(seq) |-> seq[Len(seq) + 1 - k]]

\* C20: effects are evaluated against the pre-state: in w.apply(And(e1..en))
\* the condition of every When, at any depth under And and ForAll, is
\* evaluated in w: the new atoms are those of w with the changes every fired
\* literal makes to w, and they are the same for the children in the
\* opposite order.
C20_ConditionsInPreState ==
    ~IsNone(new_world) =>
        LET fired == Fired(ex_effect, ex_world)
            additions == UNION {get_changes(l, ex_world).additions : l \in fired}
            deletions == UNION {get_changes(l, ex_world).deletions : l \in fired}
        IN  /\ Val(new_world).atoms = (ex_world.atoms \cup additions) \ deletions
            /\ Val(new_world) = apply(ex_world, And(Reversed(ex_effect.args)))

C20_Witness ==
    /\ ex_world.atoms = {Atom("p", <<Constant("a")>>), Atom("q", <<Constant("a")>>)}
    /\ ex_effect = And(<<Not(Atom("p", <<Constant("a")>>)),
                         ForAll(<<VariableSpec(<<"?x">>),
                                  When(<<Atom("p", <<Constant("?x")>>),
                                         Not(Atom("q", <<Constant("?x")>>))>>)>>)>>)
    /\ ~IsNone(new_world)
    /\ Val(new_world).atoms = {}

(***************************************************************************)
(* Grounding one action schema: parse_domain reads its :parameters with    *)
(* process_parameters(action_part, True), plan builds the substitutions    *)
(* and expand_action grounds it.  The schemas declare up to MaxParams      *)
(* parameters ?p1, ?p2, ... with any types; the list is written with one   *)
(* "- type" per parameter or with adjacent parameters of a type grouped.   *)
(***************************************************************************)
MaxParams == 5

ParamNames == <<"?p1", "?p2", "?p3", "?p4", "?p5", "?p6", "?p7">>
TypeNames == {"t", "u", "v"}
\* a type a schema may declare that is no key of the sets
UnknownTypeName == "w"
GroundSets ==
    [k \in TypeNames \cup {""} |->
        CASE k = "t" -> <<"a", "b">>
          [] k = "u" -> <<"c", "d">>
          [] k = "v" -> <<"e">>
          [] OTHER -> <<"a", "b", "c", "d", "e">>]

\* the tokens of the parameter list for the declared types
RECURSIVE parameter_tokens(_, _, _)
parameter_tokens(types, k, grouped) ==
    IF k > Len(types) THEN <<>>
    ELSE (IF grouped /\ k < Len(types) /\ types[k + 1] = types[k]
          THEN <<ParamNames[k]>>
          ELSE <<ParamNames[k], "-", types[k]>>)
         \o parameter_tokens(types, k + 1, grouped)

\* the precondition (pre ?p1 ... ?pn) and the effect (not (pre ?p1 ... ?pn))
SchemaPrecondition(n) == List(<<Sym("pre")>> \o [k \in 1..n |-> Sym(ParamNames[k])])
SchemaEffect(n) == List(<<Sym("not"), SchemaPrecondition(n)>>)

InitGround ==
    /\ mode = "ground"
    /\ \E n \in 0..MaxParams : gr_types \in [1..n -> TypeNames \cup {UnknownTypeName}]
    /\ \E grouped \in BOOLEAN : gr_tokens = parameter_tokens(gr_types, 1, grouped)
    /\ gr_action = None
    /\ gr_sets = GroundSets
    /\ gr_substitutions = None
    /\ gr_expanded = None
    /\ gr_raised = None
    /\ AstarIdle
    /\ ExprIdle
    /\ SetsIdle
    /\ HeuristicIdle
    /\ FormulaIdle
    /\ ReaderIdle

\* pddl.parse_domain, lines 110-139, for the action
ParseAction ==
    /\ mode = "ground"
    /\ IsNone(gr_action) /\ IsNone(gr_raised)
    /\ LET parsed == process_parameters(gr_tokens, TRUE)
           n == Len(gr_types)
       IN  IF parsed.raised
           THEN gr_raised' = Some("TypeError") /\ UNCHANGED gr_action
           ELSE /\ gr_action' = Some(Action("act", parsed.map, SchemaPrecondition(n),
                                            SchemaEffect(n)))
                /\ UNCHANGED gr_raised
    /\ UNCHANGED <<gr_types, gr_tokens, gr_sets, gr_substitutions, gr_expanded,
                   formula_vars, reader_vars, input_vars, sets_vars, heuristic_vars, astar_vars, expr_vars>>

\* planner.plan, lines 269-280, for the action
BuildSubstitutions ==
    /\ mode = "ground"
    /\ ~IsNone(gr_action) /\ IsNone(gr_substitutions) /\ IsNone(gr_raised)
    /\ LET substitutions == substitutions_or_raise(Val(gr_action), gr_sets)
       IN  IF IsNone(substitutions)
           THEN gr_raised' = Some("KeyError") /\ UNCHANGED gr_substitutions
           ELSE gr_substitutions' = substitutions /\ UNCHANGED gr_raised
    /\ UNCHANGED <<gr_types, gr_tokens, gr_action, gr_sets, gr_expanded,
                   formula_vars, reader_vars, input_vars, sets_vars, heuristic_vars, astar_vars, expr_vars>>

\* planner.plan, line 282: expand_action(action, substitutions_per_action)
ExpandAction ==
    /\ mode = "ground"
    /\ ~IsNone(gr_substitutions) /\ IsNone(gr_expanded)
    /\ gr_expanded' = Some(expand_action(Val(gr_action), Val(gr_substitutions)))
    /\ UNCHANGED <<gr_types, gr_tokens, gr_action, gr_sets, gr_substitutions,
                   gr_raised, formula_vars, reader_vars, input_vars, sets_vars, heuristic_vars, astar_vars, expr_vars>>

NextGround == ParseAction \/ BuildSubstitutions \/ ExpandAction

SpecGround == InitGround /\ [][NextGround]_vars

\* the values bound to ?p1 ... ?pn in a ground template, read off its formula
BoundValues(template) ==
    LET pre == template.expression.args[1]
    IN  [k \in 1..Len(pre.args) |-> pre.args[k].name]

SeqRange(sq) == {sq[k] : k \in 1..Len(sq)}

\* the Cartesian product of the extents of the declared types
TypeProduct ==
    {tup \in [1..Len(gr_types) -> SeqRange(gr_sets[""])] :
        \A k \in 1..Len(gr_types) : tup[k] \in SeqRange(gr_sets[gr_types[k]])}

RECURSIVE ExtentProduct(_)
ExtentProduct(types) ==
    IF types = <<>> THEN 1 ELSE Len(gr_sets[Head(types)]) * ExtentProduct(Tail(types))

\* C9: grounding a schema yields exactly |sets[T1]| * ... * |sets[Tk]| ground
\* templates, one for every tuple of the product of the type extents, none twice.
C9_GroundCount ==
    ~IsNone(gr_expanded) =>
        LET templates == Val(gr_expanded)
        IN  /\ Len(templates) = ExtentProduct(gr_types)
            /\ {BoundValues(templates[k]) : k \in 1..Len(templates)} = TypeProduct
            /\ Cardinality(TypeProduct) = Len(templates)

C9_Witness ==
    /\ ~IsNone(gr_expanded)
    /\ Len(Val(gr_expanded)) = 8
    /\ gr_types = <<"t", "u", "v", "t">>

\* C10: in every ground template the bound argument list holds the value of
\* the i-th declared parameter at index i, for any interleaving of types.
C10_DeclaredOrder ==
    ~IsNone(gr_expanded) =>
        \A k \in 1..Len(Val(gr_expanded)) :
            Val(gr_expanded)[k].parameters = BoundValues(Val(gr_expanded)[k])

UnknownTypeDeclared == \E k \in 1..Len(gr_types) : gr_types[k] \notin DOMAIN gr_sets

\* C22: grounding a schema that declares a parameter whose type is no key of
\* the type universe fails with an error and the planner aborts: the step
\* that builds the substitutions raises, no ground template is built and the
\* search is not started.
C22_UnknownTypeAborts ==
    UnknownTypeDeclared =>
        /\ IsNone(gr_substitutions)
        /\ IsNone(gr_expanded)
        /\ pc = "off" /\ open_list = <<>>
        /\ (~IsNone(gr_action) /\ IsNone(gr_raised))
               => IsNone(substitutions_or_raise(Val(gr_action), gr_sets))

C22_Witness ==
    /\ gr_types = <<"t", UnknownTypeName, "u">>
    /\ ~IsNone(gr_action)
    /\ gr_raised = Some("KeyError")

\* the parameters declared with the type, with their positions, in order
RECURSIVE DeclaredWith(_, _)
DeclaredWith(type, k) ==
    IF k > Len(gr_types) THEN <<>>
    ELSE (IF gr_types[k] = type THEN << <<ParamNames[k], k - 1>> >> ELSE <<>>)
         \o DeclaredWith(type, k + 1)

\* C28: process_parameters maps every type name to the ordered sequence of
\* all symbols declared with that type, also when the type closes more than
\* one group of the list, and raises no error whatever the number of symbols
\* of a later group.
C28_RepeatedType ==
    (~IsNone(gr_action) \/ ~IsNone(gr_raised)) =>
        /\ IsNone(gr_raised)
        /\ \A type \in SeqRange(gr_types) :
               /\ dict_has(Val(gr_action).parameters, type)
               /\ dict_get(Val(gr_action).parameters, type) = DeclaredWith(type, 1)

(***************************************************************************)
(* Properties of astar on static graphs (specification Spec)               *)
(***************************************************************************)
Infinity == (MaxCost + 1) * (Cardinality(Nodes) + 1)

MinOf(S) == CHOOSE x \in S : \A y \in S : x <= y

\* the cheapest cost of a path of at most k edges from node n to a goal node
RECURSIVE CheapestWithin(_, _)
CheapestWithin(n, k) ==
    IF n \in goal_ids THEN 0
    ELSE IF k = 0 THEN Infinity
    ELSE MinOf({Infinity} \cup
               {graph[n][j].cost + CheapestWithin(graph[n][j].target, k - 1) :
                    j \in 1..Len(graph[n])})

Cheapest(n) == CheapestWithin(n, Cardinality(Nodes))

GoalReachable == Cheapest(StartId) < Infinity

\* h(n) never exceeds the cheapest cost from n to a goal node
Admissible == \A n \in Nodes : hval[n] <= Cheapest(n)

Returned == pc = "done" /\ ~IsNone(result)
PathReturned == Returned /\ ~IsNone(Val(result).path)

RECURSIVE SumCosts(_)
SumCosts(p) == IF p = <<>> THEN 0 ELSE Head(p).cost + SumCosts(Tail(p))

IsEdgeOf(e, n) == \E j \in 1..Len(graph[n]) : graph[n][j] = e

\* C1: with an admissible heuristic, the cost returned with a path is the
\* minimum cost of any path from start to a goal node.
C1_OptimalUnderAdmissible ==
    (PathReturned /\ Admissible) => Val(Val(result).distance) = Cheapest(StartId)

\* C2: a returned path is a forward chain of edges: the first edge leaves
\* start, every later edge leaves the target of the edge before it, the last
\* target satisfies goal, and the returned distance is the sum of the costs.
C2_PathIsChain ==
    PathReturned =>
        LET p == Val(Val(result).path)
        IN  /\ Len(p) > 0 => IsEdgeOf(p[1], StartId)
            /\ \A k \in 2..Len(p) : IsEdgeOf(p[k], p[k - 1].target)
            /\ goal(IF Len(p) = 0 THEN StartId ELSE p[Len(p)].target)
            /\ Val(Val(result).distance) = SumCosts(p)

C2_Witness == PathReturned /\ Len(Val(Val(result).path)) = 3

\* C6: when no node reachable from start satisfies goal, astar returns
\* path = nil and cost = nil, with visited equal to expanded.
C6_UnreachableGoal ==
    (Returned /\ ~GoalReachable) =>
        /\ IsNone(Val(result).path)
        /\ IsNone(Val(result).distance)
        /\ Len(open_list) = 0
        /\ Val(result).visited = Val(result).expanded
        /\ Val(result).expanded = Cardinality(pushed)

C6_Witness == Returned /\ ~GoalReachable /\ Val(result).expanded = 3

\* C7: the visited count returned equals the number of distinct nodes that
\* were added to the frontier; a node whose entry was replaced counts once.
C7_VisitedIsPushed == Returned => Val(result).visited = Cardinality(pushed)

C7_Witness ==
    Returned /\ replacements > 0 /\ Val(result).visited = Cardinality(Nodes)

\* C8: the expanded count returned equals the number of nodes whose
\* neighbors were generated, also in runs that end by popping a goal node.
C8_ExpandedIsExpansions == Returned => Val(result).expanded = expansions

\* the ids of the nodes of a sequence of nodes, and of the entries of Open
ClosedIds == {get_id(closed_list[k]) : k \in 1..Len(closed_list)}
OpenIds == {get_id(open_list[k].node) : k \in 1..Len(open_list)}

Entries(lst) == {lst[k] : k \in 1..Len(lst)}

\* C26: when the edge being expanded leads to a node t that is not in Closed
\* and has an entry on Open: if the priority of that entry is strictly
\* greater than f' = g' + h(t, e), the entry is replaced by one with f', g',
\* the current entry as parent and e as incoming edge; otherwise Open is
\* left as it is.
C26_ReplacementRule ==
    [][(pc = "expand" /\ Len(edges_left) > 0) =>
        LET e == Head(edges_left)
            current == Val(current_node_info)
            g1 == current.g + e.cost
            f1 == g1 + heuristic(e.target, e)
            old == {x \in Entries(open_list) : get_id(x.node) = get_id(e.target)}
        IN  (get_id(e.target) \notin ClosedIds /\ old # {}) =>
                IF \E x \in old : x.f > f1
                THEN Entries(open_list') =
                         (Entries(open_list) \ old)
                             \cup {NodeInfo(f1, i', e.target, g1, Some(current), Some(e))}
                ELSE open_list' = open_list]_vars

\* the entry of node 3 pushed from the start node has been replaced by one
\* whose parent is the entry of node 2, and a later edge to node 4 found an
\* entry it did not replace
C26_Witness ==
    /\ replacements = 1
    /\ pc = "done"
    /\ Len(closed_list) = 4
    /\ i = 5
    /\ Val(current_node_info).node = GoalId
    /\ Val(current_node_info).i = 4
    /\ Val(Val(current_node_info).parent).node = 2

\* C24: every entry popped from Open has the minimum (f, tiebreak) among the
\* entries on Open at the moment of the pop, also after an entry of Open has
\* been replaced by a better one.
C24_PopsMinimum ==
    [][(pc = "loop" /\ Len(open_list) > 0) =>
        \A x \in Entries(open_list) : ~TupleLess(x, Val(current_node_info'))]_vars

\* C27: astar runs to completion: on a graph with finitely many nodes, for
\* any heuristic and goal, the main loop ends, by popping a node that
\* satisfies goal or by emptying Open, and the function returns.
C27_Terminates ==
    <>(pc = "done" /\ (~IsNone(edge_path) \/ Len(open_list) = 0))

\* a run over the cycle 1 -> 2 -> 3 -> 2 and the self loop of node 3 has
\* ended with Open empty
C27_Witness ==
    /\ pc = "done"
    /\ goal_ids = {}
    /\ Len(graph[2]) = 2 /\ Len(graph[3]) = 3
    /\ Len(open_list) = 0
    /\ IsNone(edge_path)

C25_NeverReopen ==
    /\ Cardinality(OpenIds) = Len(open_list)
    /\ Cardinality(ClosedIds) = Len(closed_list)
    /\ OpenIds \cap ClosedIds = {}
    /\ expansions <= Cardinality(ClosedIds)

\* every edge of a cycle through the start node has been followed, and the
\* self loop of node 3
C25_Witness ==
    /\ pc = "done"
    /\ Len(graph[2]) = 2 /\ Len(graph[3]) = 3
    /\ Len(closed_list) = 4
    /\ i = 7

(***************************************************************************)
(* planner.plan on a family of untyped STRIPS problems over the objects a  *)
(* and b: the domain has two actions with the parameters ?x ?y, each with  *)
(* a schema of the pool; plan grounds them, builds the start node from the *)
(* initial atoms and calls astar with its heuristic or the default one.    *)
(***************************************************************************)
Literal(pred, variable) == List(<<Sym(pred), Sym(variable)>>)
Negated(ast) == List(<<Sym("not"), ast>>)
Conjunction(asts) == List(<<Sym("and")>> \o asts)

\* the (precondition, effect) pairs an action of the family may have
SchemaPool ==
    << [pre |-> Literal("p", "?x"), eff |-> Literal("q", "?x")],
       [pre |-> Literal("p", "?x"),
        eff |-> Conjunction(<<Literal("p", "?y"), Negated(Literal("p", "?x"))>>)],
       [pre |-> Literal("q", "?x"), eff |-> Negated(Literal("q", "?y"))],
       [pre |-> Conjunction(<<Literal("p", "?x"), Literal("q", "?y")>>),
        eff |-> Conjunction(<<Literal("q", "?x"), Negated(Literal("q", "?y"))>>)] >>

PlanActionNames == <<"act1", "act2">>
PlanInits ==
    { <<Literal("p", "a")>>, <<Literal("p", "a"), Literal("q", "b")>> }
PlanGoals ==
    { Literal("q", "b"),
      Conjunction(<<Literal("p", "b"), Literal("q", "b")>>),
      Conjunction(<<Literal("q", "a"), Literal("q", "b")>>) }

\* build_world_sets for the objects a and b, declared without a type, in a
\* domain whose :types section gives them no type
PlanSets == [k \in {""} |-> Objects]

\* parse_domain: the action of the given name with the schema
PlanAction(name, schema) ==
    Action(name, process_parameters(<<"?x", "?y">>, TRUE).map, schema.pre, schema.eff)

\* plan, lines 265-282: the ground templates of the actions, in order
RECURSIVE ground_actions(_, _)
ground_actions(actions, world_sets) ==
    IF actions = <<>> THEN <<>>
    ELSE expand_action(Head(actions), get_substitutions_per_action(Head(actions), world_sets))
         \o ground_actions(Tail(actions), world_sets)

GraphIdle ==
    /\ graph = <<>>
    /\ hval = <<>>
    /\ goal_ids = {}

\* plan, lines 262-288, up to the while loop of astar
InitPlan ==
    /\ mode = "plan"
    /\ GraphIdle
    /\ \E schemas \in [1..Len(PlanActionNames) -> 1..Len(SchemaPool)] :
           expanded_expressions =
               ground_actions([k \in 1..Len(PlanActionNames) |->
                                   PlanAction(PlanActionNames[k], SchemaPool[schemas[k]])],
                              PlanSets)
    /\ problem_goal \in PlanGoals
    /\ useheuristic \in BOOLEAN
    /\ \E init \in PlanInits :
           AstarStart(ExpressionNode(make_world(init, PlanSets), None))
    /\ ExprIdle
    /\ GroundIdle
    /\ SetsIdle
    /\ HeuristicIdle
    /\ FormulaIdle
    /\ ReaderIdle

SpecPlan == InitPlan /\ [][Next]_vars

\* the literals of the effect of a ground template
EffectLiterals(template) ==
    LET eff == template.expression.args[2]
    IN  IF eff.op = "and" THEN SeqRange(eff.args) ELSE {eff}

\* executing a ground action: its positive literals are added, the atoms of
\* its negative literals are removed
Executed(atoms, template) ==
    LET literals == EffectLiterals(template)
    IN  (atoms \cup {l \in literals : l.op = "atom"})
            \ {l.args[1] : l \in {m \in literals : m.op = "not"}}

\* the plan is executable from atoms and ends in a world that models the goal
RECURSIVE ValidPlan(_, _)
ValidPlan(atoms, path) ==
    IF path = <<>>
    THEN models(World(atoms, PlanSets), make_expression(problem_goal))
    ELSE LET template == Val(Head(path).target.preceding_action)
         IN  /\ models(World(atoms, PlanSets), template_precondition(template))
             /\ ValidPlan(Executed(atoms, template), Tail(path))

\* C3: a plan returned by plan, with its heuristic or the default one, is
\* valid: executed in order from the initial world, every action is applied
\* in a world that models its precondition, and the last world models the goal.
C3_PlanIsValid ==
    (mode = "plan" /\ PathReturned) =>
        ValidPlan(closed_list[1].world.atoms, Val(Val(result).path))

\* the worlds one step of the search away from the worlds of S
SearchSuccessors(S) ==
    UNION {LET edges == get_neighbors(ExpressionNode(World(atoms, PlanSets), None))
           IN  {get_id(edges[k].target) : k \in 1..Len(edges)} : atoms \in S}

\* the worlds the search can come to from the worlds of S
RECURSIVE SearchReachable(_)
SearchReachable(S) ==
    LET T == S \cup SearchSuccessors(S)
    IN  IF T = S THEN S ELSE SearchReachable(T)

\* a plan exists in the graph that astar is run on: the plan that the search
\* with default_heuristic, which pops every world it pushes until a goal
\* world is popped, returns
PlanExists ==
    \E atoms \in SearchReachable({closed_list[1].world.atoms}) :
        isgoal(ExpressionNode(World(atoms, PlanSets), None))

\* the schemas of a family with a negative precondition
NegativeSchemaPool ==
    << [pre |-> Literal("p", "?x"), eff |-> Literal("r", "?x")],
       [pre |-> Literal("r", "?x"), eff |-> Negated(Literal("p", "?x"))],
       [pre |-> Negated(Literal("p", "?x")), eff |-> Literal("q", "?x")] >>
NegativeActionNames == <<"act1", "act2", "act3">>
NegativeInits == { <<Literal("p", "a")>>, <<Literal("r", "a")>>, <<Literal("p", "a"), Literal("r", "b")>> }
NegativeGoals ==
    { Literal("q", "a"),
      Conjunction(<<Literal("q", "a"), Literal("r", "a")>>),
      Conjunction(<<Literal("q", "a"), Literal("q", "b")>>) }

\* parse_domain: the action of the given name with the schema, of one parameter
UnaryAction(name, schema) ==
    Action(name, process_parameters(<<"?x">>, TRUE).map, schema.pre, schema.eff)

\* plan, lines 262-288, up to the while loop of astar, on the family with a
\* negative precondition
InitPlanNegative ==
    /\ mode = "plan"
    /\ GraphIdle
    /\ \E schemas \in [1..Len(NegativeActionNames) -> 1..Len(NegativeSchemaPool)] :
           expanded_expressions =
               ground_actions([k \in 1..Len(NegativeActionNames) |->
                                   UnaryAction(NegativeActionNames[k], NegativeSchemaPool[schemas[k]])],
                              PlanSets)
    /\ problem_goal \in NegativeGoals
    /\ useheuristic \in BOOLEAN
    /\ \E init \in NegativeInits :
           AstarStart(ExpressionNode(make_world(init, PlanSets), None))
    /\ ExprIdle
    /\ GroundIdle
    /\ SetsIdle
    /\ HeuristicIdle
    /\ FormulaIdle
    /\ ReaderIdle

SpecPlanNegative == InitPlanNegative /\ [][Next]_vars

\* the call of plan is over: astar returned or the heuristic raised
PlanOver == mode = "plan" /\ (Returned \/ pc = "raised")

\* C21: for a goal that is a conjunction of atoms, plan with its heuristic
\* returns a plan if and only if plan with default_heuristic does, that is,
\* if and only if a goal world can be reached in the graph searched: a world
\* whose heuristic value is the sentinel 1000 is pushed on open_list like any
\* other.
C21_HeuristicKeepsPlans == PlanOver => (PathReturned <=> PlanExists)

\* plan with default_heuristic returns a plan exactly when one exists
DefaultFindsPlans == (PlanOver /\ ~useheuristic) => (PathReturned <=> PlanExists)

(***************************************************************************)
(* build_world_sets on a family of domains with the type hierarchy         *)
(* top > mid > l1, top > l2, written in either order in :types, and with   *)
(* any choice of the objects a - l1, b - l2, c - mid, d - top, e (untyped) *)
(* and of the constants k - l1, m - mid.                                   *)
(***************************************************************************)
TypesTokens ==
    { <<"mid", "l2", "-", "top", "l1", "-", "mid">>,
      <<"l1", "-", "mid", "mid", "l2", "-", "top">> }
ObjectDeclarations ==
    << <<"a", "-", "l1">>, <<"b", "-", "l2">>, <<"c", "-", "mid">>, <<"d", "-", "top">>, <<"e">> >>
ConstantDeclarations == << <<"k", "-", "l1">>, <<"m", "-", "mid">> >>

\* the tokens of the chosen declarations, in order
RECURSIVE chosen_tokens(_, _, _)
chosen_tokens(declarations, chosen, k) ==
    IF k > Len(declarations) THEN <<>>
    ELSE (IF chosen[k] THEN declarations[k] ELSE <<>>)
         \o chosen_tokens(declarations, chosen, k + 1)

InitSets ==
    /\ mode = "sets"
    /\ \E tokens \in TypesTokens : bw_types = process_parameters(tokens, FALSE).map
    /\ \E chosen \in [1..Len(ObjectDeclarations) -> BOOLEAN] :
           bw_objects =
               object_dict(process_parameters(chosen_tokens(ObjectDeclarations, chosen, 1),
                                              FALSE).map)
    /\ \E chosen \in [1..Len(ConstantDeclarations) -> BOOLEAN] :
           bw_constants =
               object_dict(process_parameters(chosen_tokens(ConstantDeclarations, chosen, 1),
                                              FALSE).map)
    /\ bw_world_sets = None
    /\ bw_raised = None
    /\ bw_pc = "merge"
    /\ AstarIdle
    /\ ExprIdle
    /\ GroundIdle
    /\ HeuristicIdle
    /\ FormulaIdle
    /\ ReaderIdle

\* build_world_sets, line 74
MergeDictionaries ==
    /\ mode = "sets"
    /\ bw_pc = "merge"
    /\ bw_world_sets' = Some(merge_dictionaries(bw_constants, bw_objects))
    /\ bw_pc' = "complete"
    /\ UNCHANGED <<bw_types, bw_constants, bw_objects, bw_raised,
                   formula_vars, reader_vars, input_vars, heuristic_vars, astar_vars, expr_vars, ground_vars>>

\* build_world_sets, line 77
CompleteHierarchy ==
    /\ mode = "sets"
    /\ bw_pc = "complete"
    /\ LET completed == complete_hierarchy(Val(bw_world_sets), bw_types)
       IN  IF completed.raised
           THEN /\ bw_raised' = Some("KeyError")
                /\ bw_pc' = "raised"
                /\ UNCHANGED bw_world_sets
           ELSE /\ bw_world_sets' = Some(completed.sets)
                /\ bw_pc' = "all"
                /\ UNCHANGED bw_raised
    /\ UNCHANGED <<bw_types, bw_constants, bw_objects,
                   formula_vars, reader_vars, input_vars, heuristic_vars, astar_vars, expr_vars, ground_vars>>

\* build_world_sets, lines 79-88
AllObjects ==
    /\ mode = "sets"
    /\ bw_pc = "all"
    /\ bw_world_sets' = Some(add_all_objects(Val(bw_world_sets)))
    /\ bw_pc' = "done"
    /\ UNCHANGED <<bw_types, bw_constants, bw_objects, bw_raised,
                   formula_vars, reader_vars, input_vars, heuristic_vars, astar_vars, expr_vars, ground_vars>>

NextSets == MergeDictionaries \/ CompleteHierarchy \/ AllObjects

SpecSets == InitSets /\ [][NextSets]_vars

\* the identifiers among the elements of a list
Ids(lst) == {lst[k].id : k \in {j \in 1..Len(lst) : lst[j].items = <<>>}}

\* the objects and constants declared with the type
DeclaredOn(type) ==
    (IF dict_has(bw_objects, type) THEN Ids(dict_get(bw_objects, type)) ELSE {})
        \cup (IF dict_has(bw_constants, type) THEN Ids(dict_get(bw_constants, type)) ELSE {})

\* the types below a type of the hierarchy, at any depth
RECURSIVE TypesBelow(_)
TypesBelow(type) ==
    IF dict_has(bw_types, type)
    THEN LET subtypes == SeqRange(dict_get(bw_types, type))
         IN  subtypes \cup UNION {TypesBelow(t) : t \in subtypes}
    ELSE {}

NonLeafTypes == SeqRange(dict_keys(bw_types)) \ {""}
LeafTypesBelow(type) == {t \in TypesBelow(type) : ~dict_has(bw_types, t)}

\* C11: when build_world_sets is over it has not failed, and every non-leaf
\* type maps to a list that holds the objects of all leaf types below it and
\* nothing but objects declared on the type or below it, in either order of
\* the :types list, with objects on mid and with leaf types without objects.
C11_TypeClosure ==
    bw_pc \in {"done", "raised"} =>
        /\ bw_pc = "done"
        /\ \A type \in NonLeafTypes :
               LET value == dict_get(Val(bw_world_sets), type)
               IN  /\ UNION {DeclaredOn(t) : t \in LeafTypesBelow(type)} \subseteq Ids(value)
                   /\ \A k \in 1..Len(value) :
                          /\ value[k].items = <<>>
                          /\ value[k].id \in UNION {DeclaredOn(t) : t \in TypesBelow(type) \cup {type}}

\* the types that have domain constants and problem objects
CommonTypes ==
    {t \in SeqRange(dict_keys(bw_constants)) : dict_has(bw_objects, t)}

\* C30: when a type has domain constants and problem objects, build_world_sets
\* maps it to a flat list: every element is an object identifier, and every
\* constant and every object of the type is one of them.
C30_MergeIsFlat ==
    bw_pc = "done" =>
        \A type \in CommonTypes :
            LET value == dict_get(Val(bw_world_sets), type)
            IN  /\ \A k \in 1..Len(value) : value[k].items = <<>>
                /\ DeclaredOn(type) \subseteq Ids(value)

\* the elements of the values of the keys other than "", in dict order
RECURSIVE OtherEntries(_, _)
OtherEntries(world_sets, k) ==
    IF k > Len(world_sets) THEN <<>>
    ELSE (IF world_sets[k].key = "" THEN <<>> ELSE world_sets[k].value)
         \o OtherEntries(world_sets, k + 1)

\* the position of the first occurrence of an element of the list
FirstIndex(lst, x) == CHOOSE k \in 1..Len(lst) : lst[k] = x /\ \A j \in 1..(k - 1) : lst[j] # x

\* C12: when build_world_sets is over, every element of sets[""] is an
\* object identifier declared in the problem or the domain, none occurs
\* twice, every identifier of the other entries occurs in it, and the
\* identifiers of the other entries stand in the order of their first
\* occurrence there.
C12_AllObjectsSet ==
    bw_pc = "done" =>
        LET all_objects == dict_get(Val(bw_world_sets), "")
            others == OtherEntries(Val(bw_world_sets), 1)
        IN  /\ \A k \in 1..Len(all_objects) :
                   /\ all_objects[k].items = <<>>
                   /\ all_objects[k].id \in UNION {DeclaredOn(t) : t \in TypesBelow("top") \cup {"top", ""}}
            /\ \A j, k \in 1..Len(all_objects) : j < k => all_objects[j] # all_objects[k]
            /\ \A k \in 1..Len(others) : others[k] \in SeqRange(all_objects)
            /\ \A j, k \in 1..Len(others) :
                   FirstIndex(others, others[j]) < FirstIndex(others, others[k])
                       => FirstIndex(all_objects, others[j]) < FirstIndex(all_objects, others[k])

(***************************************************************************)
(* The heuristic of plan, a layer at a time, on the domains and goals of   *)
(* the planning family and for every world over the ground atoms as the    *)
(* state it is called with.                                                *)
(***************************************************************************)
MaxLayers == 6

\* the schemas of the planning family and one that chains: with
\* (p ?x) -> (q ?x) it brings in one atom per layer
HeuristicSchemaPool ==
    SchemaPool
        \o << [pre |-> Conjunction(<<Literal("p", "?x"), Literal("q", "?x")>>),
               eff |-> Literal("p", "?y")] >>

InitHeuristic ==
    /\ mode = "heuristic"
    /\ GraphIdle
    /\ \E schemas \in [1..Len(PlanActionNames) -> 1..Len(HeuristicSchemaPool)] :
           expanded_expressions =
               ground_actions([k \in 1..Len(PlanActionNames) |->
                                   PlanAction(PlanActionNames[k], HeuristicSchemaPool[schemas[k]])],
                              PlanSets)
    /\ problem_goal \in PlanGoals
    /\ useheuristic = TRUE
    /\ \E atoms \in SUBSET GroundAtoms :
           hr_state = ExpressionNode(World(atoms, PlanSets), None)
    /\ hr_rpg = <<Layer(<<>>, hr_state)>>
    /\ hr_h = None
    /\ hr_pc = "loop"
    /\ open_list = <<>>
    /\ closed_list = <<>>
    /\ i = 0
    /\ current_node_info = None
    /\ edges_left = <<>>
    /\ edge_path = None
    /\ distance = None
    /\ result = None
    /\ pc = "off"
    /\ pushed = {}
    /\ expansions = 0
    /\ replacements = 0
    /\ ExprIdle
    /\ GroundIdle
    /\ SetsIdle
    /\ FormulaIdle
    /\ ReaderIdle

\* heuristic, lines 158-174: one pass of the while loop that appends a layer
ExtendLayer ==
    /\ mode = "heuristic"
    /\ hr_pc = "loop"
    /\ Len(hr_rpg) <= MaxLayers
    /\ loop_continues(hr_rpg[Len(hr_rpg)].props)
    /\ hr_rpg' = Append(hr_rpg, next_layer(hr_rpg[Len(hr_rpg)].props))
    /\ UNCHANGED <<hr_state, hr_h, hr_pc, formula_vars, reader_vars, input_vars, sets_vars, astar_vars, expr_vars,
                   ground_vars>>

\* heuristic, lines 158 and 167-168: the loop ends at the goal or at a fixpoint
LoopEnds ==
    /\ mode = "heuristic"
    /\ hr_pc = "loop"
    /\ ~loop_continues(hr_rpg[Len(hr_rpg)].props)
    /\ hr_pc' = "extract"
    /\ UNCHANGED <<hr_state, hr_rpg, hr_h, formula_vars, reader_vars, input_vars, sets_vars, astar_vars, expr_vars,
                   ground_vars>>

\* heuristic, line 177
ExtractPlanSize ==
    /\ mode = "heuristic"
    /\ hr_pc = "extract"
    /\ hr_h' = Some(extract_plan_size(hr_rpg))
    /\ hr_pc' = "done"
    /\ UNCHANGED <<hr_state, hr_rpg, formula_vars, reader_vars, input_vars, sets_vars, astar_vars, expr_vars,
                   ground_vars>>

NextHeuristic == ExtendLayer \/ LoopEnds \/ ExtractPlanSize

SpecHeuristic == InitHeuristic /\ [][NextHeuristic]_vars

\* the world of the last proposition layer
FinalWorld == hr_rpg[Len(hr_rpg)].props.world

\* no template applicable in the world adds an atom under the relaxed semantics
RelaxedFixpoint(world) ==
    \A k \in 1..Len(expanded_expressions) :
        models(world, template_precondition(expanded_expressions[k]))
            => world_apply_relaxed(world, expanded_expressions[k].expression).atoms
                   \subseteq world.atoms

\* C13: when the relaxed planning graph has reached a fixpoint and its last
\* proposition layer does not model the goal, the heuristic returns 1000.
C13_SentinelAtFixpoint ==
    (/\ hr_pc = "done"
     /\ RelaxedFixpoint(FinalWorld)
     /\ ~models(FinalWorld, make_expression(problem_goal)))
        => Val(hr_h) = 1000

C13_Witness ==
    /\ hr_pc = "done"
    /\ Len(hr_rpg) >= 3
    /\ RelaxedFixpoint(FinalWorld)
    /\ ~models(FinalWorld, make_expression(problem_goal))
    /\ Val(hr_h) = 1000

\* the backward extraction of extract_plan_size, keeping next to the levels
\* the actions it selects, each with the layer it is selected in
RECURSIVE selection_of(_, _, _, _)
selection_of(rpg, acc, sub_goal, layer_index) ==
    IF layer_index >= Len(rpg) THEN acc
    ELSE LET k == first_introducing(rpg, layer_index, sub_goal, 1)
             action == rpg[layer_index + 1].actions[k]
             preconditions == template_precondition(Val(action.target.preceding_action))
         IN  selection_of(rpg,
                 IF k = 0 THEN acc
                 ELSE [levels |-> get_first_goal_levels(rpg, preconditions, acc.levels),
                       selected |-> acc.selected \cup {<<layer_index, action.name>>}],
                 sub_goal, layer_index + 1)

RECURSIVE selection_loop(_, _, _)
selection_loop(rpg, acc, sub_goals) ==
    IF sub_goals = {} THEN acc
    ELSE LET sub_goal == CHOOSE g \in sub_goals : TRUE
         IN  selection_loop(rpg, selection_of(rpg, acc, sub_goal, 0), sub_goals \ {sub_goal})

RECURSIVE selection_backtrack(_, _, _)
selection_backtrack(rpg, acc, k) ==
    IF k <= 0 THEN acc
    ELSE selection_backtrack(rpg,
             IF acc.levels[k] # {} THEN selection_loop(rpg, acc, acc.levels[k]) ELSE acc,
             k - 1)

SelectedActions(rpg) ==
    LET last == Len(rpg) - 1
        first_goal_levels ==
            get_first_goal_levels(rpg, make_expression(problem_goal), [k \in 0..last |-> {}])
    IN  selection_backtrack(rpg, [levels |-> first_goal_levels, selected |-> {}],
                            max_level(first_goal_levels, last)).selected

\* C14: when the relaxed planning graph reaches the goal, the value the
\* heuristic returns is the number of actions the backward extraction
\* selects over all layers; a state that models the goal has the value 0.
C14_CountsSelectedActions ==
    (hr_pc = "done" /\ models(FinalWorld, make_expression(problem_goal)))
        => Val(hr_h) = Cardinality(SelectedActions(hr_rpg))

\* C15: in the relaxed planning graph every proposition layer contains the
\* previous one, and the graph never has more layers after the first than
\* there are ground atoms.
C15_LayersGrow ==
    /\ \A k \in 2..Len(hr_rpg) :
           hr_rpg[k - 1].props.world.atoms \subseteq hr_rpg[k].props.world.atoms
    /\ Len(hr_rpg) - 1 <= Cardinality(GroundAtoms)

C15_Witness ==
    /\ hr_pc = "done"
    /\ Len(hr_rpg) >= 4
    /\ Cardinality(hr_rpg[Len(hr_rpg)].props.world.atoms) > Cardinality(hr_state.world.atoms) + 1

(***************************************************************************)
(* models and substitute on the formulas over the terms ?x, ?y, a, b: the  *)
(* atoms, their negations, the binary connectives, equalities, whens, and  *)
(* quantifiers over ?x (untyped, or over the types t and e) of these, with *)
(* a second quantifier over ?y around the conjunctions.  The world's sets  *)
(* give the type t one object and the type e none.                         *)
(***************************************************************************)
Terms == {"?x", "?y", "a", "b"}
TermAtoms(pred) == {Atom(pred, <<Constant(t)>>) : t \in Terms}
QuantSets ==
    [k \in {"", "t", "e"} |->
        CASE k = "t" -> <<"a">>
          [] k = "e" -> <<>>
          [] OTHER -> Objects]
Conjuncts == {And(<<l, r>>) : l \in TermAtoms("p"), r \in TermAtoms("q")}
Bodies ==
    TermAtoms("p") \cup TermAtoms("q")
        \cup {Not(l) : l \in TermAtoms("p") \cup TermAtoms("q")}
        \cup Conjuncts
        \cup {Or(<<l, r>>) : l \in TermAtoms("p"), r \in TermAtoms("q")}
        \cup {Imply(<<l, r>>) : l \in TermAtoms("p"), r \in TermAtoms("q")}
        \cup {Equals(<<Constant(s), Constant(t)>>) : s, t \in Terms}
        \cup {When(<<l, r>>) : l \in TermAtoms("p"), r \in TermAtoms("q")}
VariableSpecs ==
    {VariableSpec(<<"?x">>), VariableSpec(<<"?x", "-", "t">>), VariableSpec(<<"?x", "-", "e">>)}
Quantified(bodies) ==
    {ForAll(<<s, b>>) : s \in VariableSpecs, b \in bodies}
        \cup {Exists(<<s, b>>) : s \in VariableSpecs, b \in bodies}
NestedQuantified ==
    {ForAll(<<VariableSpec(<<"?y">>), q>>) : q \in Quantified(Conjuncts)}
        \cup {Exists(<<VariableSpec(<<"?y">>), q>>) : q \in Quantified(Conjuncts)}
Formulas == Bodies \cup Quantified(Bodies) \cup NestedQuantified

InitFormula ==
    /\ mode = "formula"
    /\ \E atoms \in SUBSET GroundAtoms : qf_world = World(atoms, QuantSets)
    /\ qf_formula \in Formulas
    /\ qf_variable \in {"?x", "?y"}
    /\ qf_value \in SeqRange(Objects)
    /\ qf_models = None
    /\ qf_substituted = None
    /\ qf_substituted_models = None
    /\ AstarIdle
    /\ ExprIdle
    /\ GroundIdle
    /\ SetsIdle
    /\ HeuristicIdle
    /\ ReaderIdle

\* qf_models = models(world, formula)
Models ==
    /\ mode = "formula"
    /\ IsNone(qf_models)
    /\ qf_models' = Some(models(qf_world, qf_formula))
    /\ UNCHANGED <<qf_world, qf_formula, qf_variable, qf_value, qf_substituted,
                   qf_substituted_models, reader_vars, input_vars, sets_vars, heuristic_vars,
                   astar_vars, expr_vars, ground_vars>>

\* qf_substituted = substitute(formula, variable, value); no substitute
\* method assigns to the formula it is called on
Substitute ==
    /\ mode = "formula"
    /\ IsNone(qf_substituted)
    /\ qf_substituted' = Some(substitute(qf_formula, qf_variable, qf_value))
    /\ UNCHANGED <<qf_world, qf_formula, qf_variable, qf_value, qf_models,
                   qf_substituted_models, reader_vars, input_vars, sets_vars, heuristic_vars,
                   astar_vars, expr_vars, ground_vars>>

\* qf_substituted_models = models(world, qf_substituted)
ModelsSubstituted ==
    /\ mode = "formula"
    /\ ~IsNone(qf_substituted)
    /\ IsNone(qf_substituted_models)
    /\ qf_substituted_models' = Some(models(qf_world, Val(qf_substituted)))
    /\ UNCHANGED <<qf_world, qf_formula, qf_variable, qf_value, qf_models,
                   qf_substituted, reader_vars, input_vars, sets_vars, heuristic_vars,
                   astar_vars, expr_vars, ground_vars>>

NextFormula == Models \/ Substitute \/ ModelsSubstituted

SpecFormula == InitFormula /\ [][NextFormula]_vars

IsQuantifier(e) == e.op \in {"forall", "exists"}
BoundVariable(e) == e.args[1].args[1].name

\* the domain of a quantifier: sets[type] for a three-element specification,
\* sets[""] for a one-element one
DomainOf(e, world) ==
    LET elements == e.args[1].args
    IN  IF Len(elements) = 3 THEN SeqRange(world.sets[elements[3].name])
        ELSE SeqRange(world.sets[""])

\* C16: a world models ForAll(spec, body) iff it models the body with the
\* variable replaced by d for every d of the domain, and Exists(spec, body)
\* iff it does for at least one d; the domain is sets[type] for a typed
\* specification and sets[""] for an untyped one.
C16_QuantifierSemantics ==
    (IsQuantifier(qf_formula) /\ ~IsNone(qf_models)) =>
        LET body == qf_formula.args[2]
            holds(d) == models(qf_world, substitute(body, BoundVariable(qf_formula), d))
        IN  Val(qf_models) =
                IF qf_formula.op = "forall"
                THEN \A d \in DomainOf(qf_formula, qf_world) : holds(d)
                ELSE \E d \in DomainOf(qf_formula, qf_world) : holds(d)

C16_Witness ==
    /\ qf_formula = Exists(<<VariableSpec(<<"?x", "-", "t">>),
                             Atom("p", <<Constant("?x")>>)>>)
    /\ qf_world.atoms = {Atom("p", <<Constant("b")>>)}
    /\ qf_models = Some(FALSE)

\* C17: substitution preserves the quantifier: for a quantifier over a bound
\* variable other than v, the world models substitute(Q(spec, body), v, c)
\* exactly when it models Q(spec, substitute(body, v, c)), for Q = Exists and
\* for Q = ForAll.
C17_SubstitutionKeepsQuantifier ==
    (/\ IsQuantifier(qf_formula)
     /\ BoundVariable(qf_formula) # qf_variable
     /\ ~IsNone(qf_substituted_models)) =>
        LET body == substitute(qf_formula.args[2], qf_variable, qf_value)
            same_quantifier == [qf_formula EXCEPT !.args = <<qf_formula.args[1], body>>]
        IN  Val(qf_substituted_models) = models(qf_world, same_quantifier)

\* the formula has a Constant of value v; the elements of a VariableSpec are
\* Python strings, not Constants
RECURSIVE Mentions(_, _)
Mentions(e, v) ==
    CASE e.op = "const" -> e.name = v
      [] e.op = "varspec" -> FALSE
      [] OTHER -> \E k \in 1..Len(e.args) : Mentions(e.args[k], v)

\* C18: substitution is total: substitute(phi, v, c) contains no Constant(v),
\* so no Atom argument equal to v, and the call leaves phi as it was.
C18_SubstitutionTotal ==
    /\ [](~IsNone(qf_substituted) => ~Mentions(Val(qf_substituted), qf_variable))
    /\ [][qf_formula' = qf_formula]_vars

C18_Witness ==
    /\ qf_variable = "?x"
    /\ qf_value = "b"
    /\ qf_formula = Exists(<<VariableSpec(<<"?x", "-", "t">>),
                             And(<<Atom("p", <<Constant("?x")>>),
                                   Atom("q", <<Constant("?y")>>)>>)>>)
    /\ qf_substituted = Some(ForAll(<<VariableSpec(<<"?x", "-", "t">>),
                                      And(<<Atom("p", <<Constant("b")>>),
                                            Atom("q", <<Constant("?y")>>)>>)>>))

(***************************************************************************)
(* The reader: get_stack_from_pddl and parse_domain, on the tokens that    *)
(* the regular expression of line 35 yields.  An element of the stack is a *)
(* token, Sym(s), or a list of elements, List(kids).                       *)
(***************************************************************************)
MaxTokens == 7

\* the tokens of the texts read: the two parentheses, a section keyword and
\* a symbol; no text here has a "-"
TokenNames == {"(", ")", ":types", "t"}

\* lines 37-42: pop until "(" and collect what was popped, in the order read;
\* stack.pop() on an empty list raises IndexError
RECURSIVE pop_until_open(_, _)
pop_until_open(stack, list) ==
    IF stack = <<>> THEN [raised |-> TRUE, stack |-> <<>>]
    ELSE LET poppedToken == stack[Len(stack)]
             rest == SubSeq(stack, 1, Len(stack) - 1)
         IN  IF poppedToken = Sym("(")
             THEN [raised |-> FALSE, stack |-> Append(rest, List(list))]
             ELSE pop_until_open(rest, <<poppedToken>> \o list)

\* the body of the loop of line 35 for one token
push_token(stack, token) ==
    IF token = ")" THEN pop_until_open(stack, <<>>)
    ELSE [raised |-> FALSE, stack |-> Append(stack, Sym(token))]

\* what "for subelement in element" yields and subelement[0] can be compared
\* on: the elements of a list.  A token yields its characters, and the first
\* character of a character is no section keyword
subelements(element) == IF element.list THEN element.kids ELSE <<>>

\* subelement[0] of an empty list raises IndexError (line 101)
parse_raises(stack) ==
    \E a \in 1..Len(stack) : \E b \in 1..Len(subelements(stack[a])) :
        LET subelement == subelements(stack[a])[b]
        IN  subelement.list /\ subelement.kids = <<>>

\* the positions of the subelements whose first element is the keyword
sections(stack, keyword) ==
    {p \in (1..Len(stack)) \X (1..MaxTokens) :
        /\ p[2] <= Len(subelements(stack[p[1]]))
        /\ LET subelement == subelements(stack[p[1]])[p[2]]
           IN  subelement.list /\ subelement.kids # <<>> /\ subelement.kids[1] = Sym(keyword)}

\* process_parameters of parts among which there is no "-": every part is
\* collected under the key "" (lines 58-81)
process_untyped(parameters) ==
    IF parameters = <<>> THEN <<>> ELSE <<[key |-> "", value |-> parameters]>>

\* parse_domain, lines 94-102: pddl_types is what the last :types section
\* gives, and [] when there is none (the empty list and the empty dict are
\* both <<>> here)
parse_domain(stack) ==
    LET found == sections(stack, ":types")
        last == CHOOSE p \in found : \A q \in found :
                    q[1] < p[1] \/ (q[1] = p[1] /\ q[2] <= p[2])
    IN  IF parse_raises(stack) THEN None
        ELSE Some([pddl_types |-> IF found = {} THEN <<>>
                                  ELSE process_untyped(Tail(subelements(stack[last[1]])[last[2]].kids))])

InitReader ==
    /\ mode = "reader"
    /\ \E n \in 0..MaxTokens : rd_tokens \in [1..n -> TokenNames]
    /\ rd_stack = <<>>
    /\ rd_read = 0
    /\ rd_domain = None
    /\ rd_raised = None
    /\ rd_pc = "tokens"
    /\ AstarIdle
    /\ ExprIdle
    /\ GroundIdle
    /\ SetsIdle
    /\ HeuristicIdle
    /\ FormulaIdle

\* one turn of the loop of line 35
ReadToken ==
    /\ mode = "reader" /\ rd_pc = "tokens" /\ rd_read < Len(rd_tokens)
    /\ LET step == push_token(rd_stack, rd_tokens[rd_read + 1])
       IN  IF step.raised
           THEN rd_raised' = Some("IndexError") /\ rd_pc' = "raised" /\ UNCHANGED rd_stack
           ELSE rd_stack' = step.stack /\ UNCHANGED <<rd_raised, rd_pc>>
    /\ rd_read' = rd_read + 1
    /\ UNCHANGED <<rd_tokens, rd_domain, input_vars, sets_vars, heuristic_vars,
                   astar_vars, expr_vars, ground_vars, formula_vars>>

\* line 47: the stack is returned once the tokens are read
ReturnStack ==
    /\ mode = "reader" /\ rd_pc = "tokens" /\ rd_read = Len(rd_tokens)
    /\ rd_pc' = "parse"
    /\ UNCHANGED <<rd_tokens, rd_stack, rd_read, rd_domain, rd_raised, input_vars,
                   sets_vars, heuristic_vars, astar_vars, expr_vars, ground_vars, formula_vars>>

\* parse_domain on the stack returned
ParseDomain ==
    /\ mode = "reader" /\ rd_pc = "parse"
    /\ LET domain == parse_domain(rd_stack)
       IN  IF IsNone(domain)
           THEN rd_raised' = Some("IndexError") /\ rd_pc' = "raised" /\ UNCHANGED rd_domain
           ELSE rd_domain' = domain /\ rd_pc' = "done" /\ UNCHANGED rd_raised
    /\ UNCHANGED <<rd_tokens, rd_stack, rd_read, input_vars, sets_vars, heuristic_vars,
                   astar_vars, expr_vars, ground_vars, formula_vars>>

NextReader == ReadToken \/ ReturnStack \/ ParseDomain

SpecReader == InitReader /\ [][NextReader]_vars

\* the number of "(" less the number of ")" among the first k tokens
RECURSIVE Depth(_, _)
Depth(tokens, k) ==
    IF k = 0 THEN 0
    ELSE Depth(tokens, k - 1) + (IF tokens[k] = "(" THEN 1 ELSE IF tokens[k] = ")" THEN -1 ELSE 0)

Balanced(tokens) ==
    /\ \A k \in 0..Len(tokens) : Depth(tokens, k) >= 0
    /\ Depth(tokens, Len(tokens)) = 0

\* C23: a text whose parentheses are not balanced (a ")" too many or a ")"
\* missing) is reported as an error by the reader and never yields a domain:
\* parse_domain does not return for it.
C23_UnbalancedIsRejected ==
    ~Balanced(rd_tokens) => IsNone(rd_domain) /\ rd_pc # "done"

\* a ")" too many is an error of the reader: the pop of line 40 raises
ExtraCloseRaises ==
    (\E k \in 1..rd_read : Depth(rd_tokens, k) < 0) => rd_raised = Some("IndexError")
====
